---- MODULE Spec2Model ----
(***************************************************************************)
(* Terraform drift detector: identity keys, attribute comparison and the   *)
(* classification of declared instances (src/src/drift_detector).          *)
(*                                                                         *)
(* Encoding of Python data.                                                *)
(*   A Python string is a sequence of tokens; every delimiter the code     *)
(*   splits on or tests as a prefix (":", "/", "-", "_", ".", " [") is a   *)
(*   token of its own, so startswith / split / f-string concatenation are  *)
(*   computed on the text and not assumed.                                 *)
(*   A Python value is a tagged token sequence: None, Str(s), Int(d),      *)
(*   Dict(id), EmptyList.  A dict of attributes (a "bag") is a function    *)
(*   from field names to values; dict.get is Get.                          *)
(***************************************************************************)
EXTENDS Naturals, Sequences, FiniteSets, TLC

VARIABLES
    pc,               \* position inside detect_drift
    state_data,       \* parsed desired-state document: sequence of resources
    provider,         \* what the provider APIs answer (the mocked boto3 clients)
    live_resources,   \* observed map, insertion ordered: sequence of [k, v]
    drift_report,     \* report returned by compare_resources: [drifts]
    calls,            \* the compare_attributes calls made: [resource_type, comparator]
    keys,             \* all_state_resources / state_resource_key_map / drifted_resources
    result,           \* value returned by detect_drift
    environ,          \* os.environ as load_config reads it (lambda_handler)
    args,             \* the parsed command line (run_drift_detector.main)
    response,         \* what lambda_handler returned or raised
    sys_exit          \* the exit code of the runner and its last log line

vars == <<pc, state_data, provider, live_resources, drift_report, calls, keys, result,
          environ, args, response, sys_exit>>

\* the entry point's own variables
caller == <<environ, args, response, sys_exit>>

-----------------------------------------------------------------------------
(* Python strings as token sequences *)

StartsWith(s, p) == Len(p) <= Len(s) /\ SubSeq(s, 1, Len(p)) = p

EndsWith(s, p) == Len(p) <= Len(s) /\ SubSeq(s, Len(s) - Len(p) + 1, Len(s)) = p

Contains(s, p) ==
    \E i \in 1..(Len(s) + 1) : i + Len(p) - 1 <= Len(s) /\ SubSeq(s, i, i + Len(p) - 1) = p

\* s.split(d)[-1] for a one-token delimiter d
SplitLast(s, d) ==
    LET idx == {i \in 1..Len(s) : s[i] = d}
    IN  IF idx = {} THEN s
        ELSE LET m == CHOOSE i \in idx : \A j \in idx : j <= i
             IN  SubSeq(s, m + 1, Len(s))

\* s.split(d)[0] for a one-token delimiter d
SplitFirst(s, d) ==
    LET idx == {i \in 1..Len(s) : s[i] = d}
    IN  IF idx = {} THEN s
        ELSE LET m == CHOOSE i \in idx : \A j \in idx : i <= j
             IN  SubSeq(s, 1, m - 1)

-----------------------------------------------------------------------------
(* Python values *)

None == <<"#none">>
Str(s) == <<"#str">> \o s
Int(d) == <<"#int", d>>
Dict(id) == <<"#dict", id>>
EmptyList == <<"#list">>
EmptyStr == Str(<<>>)
\* the structured principal {"Service": s}
Service(s) == <<"#service">> \o s

IsStr(v) == Head(v) = "#str"
IsDict(v) == Head(v) = "#dict"
Text(v) == Tail(v)

\* bool(v)
Truthy(v) == v \notin {None, EmptyStr, EmptyList, Int("0")}

\* str(v), also the rendering of {v} inside an f-string
PyStr(v) ==
    CASE v = None -> <<"None">>
      [] IsStr(v) -> Text(v)
      [] Head(v) = "#int" -> Text(v)
      [] IsDict(v) -> <<"{'doc': '", v[2], "'}">>
      [] Head(v) = "#service" -> <<"{'Service': '">> \o Tail(v) \o <<"'}">>
      [] OTHER -> <<"[]">>

\* a or b
Or(a, b) == IF Truthy(a) THEN a ELSE b

\* dict.get(f) and dict.get(f, d)
Get(bag, f) == IF f \in DOMAIN bag THEN bag[f] ELSE None
GetD(bag, f, d) == IF f \in DOMAIN bag THEN bag[f] ELSE d

EmptyBag == [f \in {} |-> None]

-----------------------------------------------------------------------------
(* JSON documents.  A serialised document is the text "{", layout, id, "}":  *)
(* id names the decoded content, layout the key order and whitespace of the  *)
(* serialisation.  Any other text is not valid JSON.                         *)

Layouts == {"compact-sorted", "spaced", "reordered"}
JsonText(id, layout) == <<"{", layout, id, "}">>
IsJson(s) == Len(s) = 4 /\ s[1] = "{" /\ s[4] = "}" /\ s[2] \in Layouts

\* json.loads(v): the decoded document, or "raise"
json_loads(v) ==
    IF IsStr(v) /\ IsJson(Text(v)) THEN Dict(Text(v)[3]) ELSE <<"#raise">>

\* json.dumps(obj, sort_keys=True, separators=(",", ":"))
json_dumps(obj) == Str(JsonText(obj[2], "compact-sorted"))

Raised(v) == v = <<"#raise">>

-----------------------------------------------------------------------------
(* Resource kind tags.  A tag that extends another carries the other's       *)
(* tokens as a prefix, so str.startswith on tags is StartsWith.              *)

aws_instance == <<"aws_instance">>
aws_vpc == <<"aws_vpc">>
aws_s3_bucket == <<"aws_s3_bucket">>
aws_dynamodb_table == <<"aws_dynamodb_table">>
aws_db_instance == <<"aws_db_instance">>
aws_lambda_function == <<"aws_lambda_function">>
aws_lambda_permission == <<"aws_lambda_permission">>
aws_iam_role == <<"aws_iam_role">>
aws_iam_role_policy == <<"aws_iam_role", "_policy">>
aws_iam_role_policy_attachment == <<"aws_iam_role", "_policy", "_attachment">>
aws_iam_policy == <<"aws_iam_policy">>
aws_iam_openid_connect_provider == <<"aws_iam_openid_connect_provider">>
aws_cloudwatch_event_bus == <<"aws_cloudwatch_event_bus">>
aws_cloudwatch_event_rule == <<"aws_cloudwatch_event_rule">>
aws_cloudwatch_event_target == <<"aws_cloudwatch_event_target">>
aws_cloudwatch_dashboard == <<"aws_cloudwatch_dashboard">>
aws_cloudwatch_metric_alarm == <<"aws_cloudwatch_metric_alarm">>
aws_ecs_cluster == <<"aws_ecs_cluster">>
aws_ecs_service == <<"aws_ecs_service">>
aws_api_gateway_rest_api == <<"aws_api_gateway_rest_api">>
aws_api_gateway_resource == <<"aws_api_gateway_resource">>
aws_api_gateway_method == <<"aws_api_gateway_method">>
aws_api_gateway_integration == <<"aws_api_gateway_integration">>
aws_api_gateway_deployment == <<"aws_api_gateway_deployment">>
aws_api_gateway_stage == <<"aws_api_gateway_stage">>
aws_route_table == <<"aws_route_table">>
aws_route_table_association == <<"aws_route_table", "_association">>
aws_sqs_queue == <<"aws_sqs_queue">>
aws_sqs_queue_policy == <<"aws_sqs_queue", "_policy">>
aws_region == <<"aws_region">>
aws_caller_identity == <<"aws_caller_identity">>
aws_kms_key == <<"aws_kms_key">>

-----------------------------------------------------------------------------
(* Comparators: each returns the list of drift details *)

Detail(attr, sv, lv) == [attribute |-> attr, state_value |-> sv, live_value |-> lv]

\* one "if a != b: drift_details.append({...})" step
Check(differ, attr, sv, lv) == IF differ THEN <<Detail(attr, sv, lv)>> ELSE <<>>

\* the comparators whose body is one "state.get(a) != live.get(b)" check
CompareOne(state_attrs, live_attrs, a, b, attr) ==
    Check(Get(state_attrs, a) # Get(live_attrs, b), attr,
          PyStr(Get(state_attrs, a)), PyStr(Get(live_attrs, b)))

compare_ec2_attributes(state_attrs, live_attrs) ==
    CompareOne(state_attrs, live_attrs, "instance_type", "InstanceType", "instance_type")
    \o CompareOne(state_attrs, live_attrs, "id", "VpcId", "vpc_id")

compare_s3_attributes(state_attrs, live_attrs) ==
    CompareOne(state_attrs, live_attrs, "bucket", "Name", "bucket_name")

compare_dynamodb_attributes(state_attrs, live_attrs) ==
    CompareOne(state_attrs, live_attrs, "name", "TableName", "table_name")

compare_rds_attributes(state_attrs, live_attrs) ==
    CompareOne(state_attrs, live_attrs, "db_instance_identifier", "DBInstanceIdentifier",
               "db_instance_identifier")

compare_apigateway_attributes(state_attrs, live_attrs) ==
    CompareOne(state_attrs, live_attrs, "name", "name", "api_name")

_compare_lambda_function_attributes(state_attrs, live_attrs) ==
    CompareOne(state_attrs, live_attrs, "function_name", "FunctionName", "function_name")

_compare_lambda_permission_attributes(state_attrs, live_attrs) ==
    LET state_principal == Get(state_attrs, "principal")
        live_principal == Get(live_attrs, "Principal")
        live_principal_service ==
            IF Head(live_principal) = "#service" THEN Str(Tail(live_principal))
            ELSE live_principal
    IN  CompareOne(state_attrs, live_attrs, "statement_id", "Sid", "statement_id")
        \o CompareOne(state_attrs, live_attrs, "action", "Action", "action")
        \o Check(state_principal # live_principal_service, "principal",
                 PyStr(state_principal), PyStr(live_principal))

_compare_iam_role_attributes(state_attrs, live_attrs) ==
    CompareOne(state_attrs, live_attrs, "name", "RoleName", "role_name")

_compare_iam_policy_attributes(state_attrs, live_attrs) ==
    CompareOne(state_attrs, live_attrs, "name", "PolicyName", "policy_name")

_compare_iam_openid_connect_provider_attributes(state_attrs, live_attrs) ==
    CompareOne(state_attrs, live_attrs, "arn", "arn", "provider_arn")

_compare_iam_role_policy_attributes(state_attrs, live_attrs) ==
    LET state_policy_doc == Get(state_attrs, "policy")
        live_policy_doc == Get(live_attrs, "policy")
        state_policy_parsed ==
            IF IsStr(state_policy_doc) THEN json_loads(state_policy_doc) ELSE state_policy_doc
        differ ==
            IF Truthy(state_policy_doc) /\ Truthy(live_policy_doc)
            THEN IF Raised(state_policy_parsed) THEN state_policy_doc # live_policy_doc
                 ELSE state_policy_parsed # live_policy_doc
            ELSE state_policy_doc # live_policy_doc
    IN  CompareOne(state_attrs, live_attrs, "role", "role_name", "role_name")
        \o CompareOne(state_attrs, live_attrs, "name", "policy_name", "policy_name")
        \o Check(differ, "policy_document", PyStr(state_policy_doc), PyStr(live_policy_doc))

_normalise_optional(val) == IF val \in {None, EmptyStr} THEN None ELSE val

_normalise_target_optional(val) == IF val \in {None, EmptyStr, EmptyList} THEN None ELSE val

_compare_eventbridge_bus_attributes(state_attrs, live_attrs) ==
    CompareOne(state_attrs, live_attrs, "name", "Name", "bus_name")

\* an optional field compared after normalisation, reported with the raw values
CompareOptional(state_attrs, live_attrs, a, b) ==
    Check(_normalise_optional(Get(state_attrs, a)) # _normalise_optional(Get(live_attrs, b)), a,
          PyStr(Get(state_attrs, a)), PyStr(Get(live_attrs, b)))

\* the same for a target's optional field
CompareTargetOptional(state_attrs, live_attrs, a, b) ==
    Check(_normalise_target_optional(Get(state_attrs, a))
            # _normalise_target_optional(Get(live_attrs, b)), a,
          PyStr(Get(state_attrs, a)), PyStr(Get(live_attrs, b)))

_compare_eventbridge_rule_attributes(state_attrs, live_attrs) ==
    CompareOne(state_attrs, live_attrs, "name", "Name", "rule_name")
    \o CompareOne(state_attrs, live_attrs, "event_pattern", "EventPattern", "event_pattern")
    \o CompareOptional(state_attrs, live_attrs, "schedule_expression", "ScheduleExpression")
    \o CompareOptional(state_attrs, live_attrs, "description", "Description")
    \o CompareOptional(state_attrs, live_attrs, "role_arn", "RoleArn")
    \o CompareOne(state_attrs, live_attrs, "state", "State", "state")

_compare_eventbridge_target_attributes(state_attrs, live_attrs) ==
    CompareOne(state_attrs, live_attrs, "target_id", "target_id", "target_id")
    \o CompareOne(state_attrs, live_attrs, "arn", "arn", "arn")
    \o CompareTargetOptional(state_attrs, live_attrs, "input", "input")
    \o CompareTargetOptional(state_attrs, live_attrs, "input_path", "input_path")
    \o CompareTargetOptional(state_attrs, live_attrs, "input_transformer", "input_transformer")

_compare_ecs_cluster_attributes(state_attrs, live_attrs) ==
    CompareOne(state_attrs, live_attrs, "name", "clusterName", "cluster_name")

_compare_ecs_service_attributes(state_attrs, live_attrs) ==
    CompareOne(state_attrs, live_attrs, "name", "serviceName", "service_name")

\* a check made only when both sides are truthy
CompareBoth(state_value, live_value, attr) ==
    Check(Truthy(state_value) /\ Truthy(live_value) /\ state_value # live_value, attr,
          PyStr(state_value), PyStr(live_value))

_compare_cloudwatch_dashboard_attributes(state_attrs, live_attrs) ==
    CompareBoth(Or(Get(state_attrs, "dashboard_arn"), Get(state_attrs, "DashboardArn")),
                Get(live_attrs, "DashboardArn"), "DashboardArn")
    \o CompareBoth(Or(Get(state_attrs, "dashboard_body"), Get(state_attrs, "DashboardBody")),
                   Get(live_attrs, "DashboardBody"), "DashboardBody")

_compare_cloudwatch_alarm_attributes(state_attrs, live_attrs) ==
    CompareOne(state_attrs, live_attrs, "alarm_name", "AlarmName", "alarm_name")

\* a numeric or string attribute compared after str() on both sides
CompareStr(state_attrs, live_attrs, a, b) ==
    Check(PyStr(Get(state_attrs, a)) # PyStr(Get(live_attrs, b)), a,
          PyStr(Get(state_attrs, a)), PyStr(Get(live_attrs, b)))

_compare_sqs_queue_attributes(state_attrs, live_attrs) ==
    LET state_name == Get(state_attrs, "name")
        live_name ==
            IF Truthy(Get(live_attrs, "QueueArn"))
            THEN Str(SplitLast(Text(Get(live_attrs, "QueueArn")), ":"))
            ELSE EmptyStr
    IN  Check(PyStr(state_name) # PyStr(live_name), "name", PyStr(state_name), PyStr(live_name))
        \o CompareStr(state_attrs, live_attrs, "visibility_timeout_seconds", "VisibilityTimeout")
        \o CompareStr(state_attrs, live_attrs, "message_retention_seconds",
                      "MessageRetentionPeriod")
        \o CompareStr(state_attrs, live_attrs, "max_message_size", "MaximumMessageSize")
        \o CompareStr(state_attrs, live_attrs, "delay_seconds", "DelaySeconds")

-----------------------------------------------------------------------------
(* Comparator dispatch.  Each *_route operator is the if/elif chain of the   *)
(* dispatcher of the same name and yields the comparator it ends in.         *)

compare_iam_attributes_route(resource_type) ==
    IF StartsWith(resource_type, aws_iam_role_policy) THEN "_compare_iam_role_policy_attributes"
    ELSE IF StartsWith(resource_type, aws_iam_role) THEN "_compare_iam_role_attributes"
    ELSE IF StartsWith(resource_type, aws_iam_policy) THEN "_compare_iam_policy_attributes"
    ELSE IF StartsWith(resource_type, aws_iam_openid_connect_provider)
         THEN "_compare_iam_openid_connect_provider_attributes"
    ELSE "none"

compare_events_attributes_route(resource_type) ==
    IF StartsWith(resource_type, aws_cloudwatch_event_bus)
    THEN "_compare_eventbridge_bus_attributes"
    ELSE IF StartsWith(resource_type, aws_cloudwatch_event_rule)
         THEN "_compare_eventbridge_rule_attributes"
    ELSE IF StartsWith(resource_type, aws_cloudwatch_event_target)
         THEN "_compare_eventbridge_target_attributes"
    ELSE "none"

\* resource_type is "" when the caller passes none
compare_lambda_attributes_route(resource_type) ==
    IF resource_type # <<>> /\ StartsWith(resource_type, aws_lambda_permission)
    THEN "_compare_lambda_permission_attributes"
    ELSE "_compare_lambda_function_attributes"

compare_ecs_attributes_route(resource_type) ==
    IF StartsWith(resource_type, aws_ecs_cluster) THEN "_compare_ecs_cluster_attributes"
    ELSE IF StartsWith(resource_type, aws_ecs_service) THEN "_compare_ecs_service_attributes"
    ELSE "none"

compare_cloudwatch_attributes_route(resource_type) ==
    IF StartsWith(resource_type, aws_cloudwatch_dashboard)
    THEN "_compare_cloudwatch_dashboard_attributes"
    ELSE IF StartsWith(resource_type, aws_cloudwatch_metric_alarm)
         THEN "_compare_cloudwatch_alarm_attributes"
    ELSE "none"

compare_attributes_route(resource_type) ==
    IF StartsWith(resource_type, aws_instance) THEN "compare_ec2_attributes"
    ELSE IF StartsWith(resource_type, aws_s3_bucket) THEN "compare_s3_attributes"
    ELSE IF StartsWith(resource_type, aws_dynamodb_table) THEN "compare_dynamodb_attributes"
    ELSE IF StartsWith(resource_type, aws_lambda_function)
         THEN compare_lambda_attributes_route(<<>>)
    ELSE IF StartsWith(resource_type, aws_iam_role_policy)
         THEN compare_iam_attributes_route(resource_type)
    ELSE IF \/ StartsWith(resource_type, aws_iam_role)
            \/ StartsWith(resource_type, aws_iam_policy)
            \/ StartsWith(resource_type, aws_iam_openid_connect_provider)
         THEN compare_iam_attributes_route(resource_type)
    ELSE IF \/ StartsWith(resource_type, aws_cloudwatch_event_bus)
            \/ StartsWith(resource_type, aws_cloudwatch_event_rule)
            \/ StartsWith(resource_type, aws_cloudwatch_event_target)
         THEN compare_events_attributes_route(resource_type)
    ELSE IF StartsWith(resource_type, aws_lambda_permission)
         THEN compare_lambda_attributes_route(resource_type)
    ELSE IF StartsWith(resource_type, aws_ecs_cluster) \/ StartsWith(resource_type, aws_ecs_service)
         THEN compare_ecs_attributes_route(resource_type)
    ELSE IF StartsWith(resource_type, aws_vpc) THEN "compare_ec2_attributes"
    ELSE IF StartsWith(resource_type, aws_api_gateway_rest_api)
         THEN "compare_apigateway_attributes"
    ELSE IF \/ StartsWith(resource_type, aws_cloudwatch_dashboard)
            \/ StartsWith(resource_type, aws_cloudwatch_metric_alarm)
         THEN compare_cloudwatch_attributes_route(resource_type)
    ELSE IF StartsWith(resource_type, aws_db_instance) THEN "compare_rds_attributes"
    ELSE IF StartsWith(resource_type, aws_sqs_queue) THEN "_compare_sqs_queue_attributes"
    ELSE "none"

\* the call of the comparator the dispatch ended in
RunComparator(comparator, s, l) ==
    CASE comparator = "compare_ec2_attributes" -> compare_ec2_attributes(s, l)
      [] comparator = "compare_s3_attributes" -> compare_s3_attributes(s, l)
      [] comparator = "compare_dynamodb_attributes" -> compare_dynamodb_attributes(s, l)
      [] comparator = "compare_rds_attributes" -> compare_rds_attributes(s, l)
      [] comparator = "compare_apigateway_attributes" -> compare_apigateway_attributes(s, l)
      [] comparator = "_compare_lambda_function_attributes" ->
            _compare_lambda_function_attributes(s, l)
      [] comparator = "_compare_lambda_permission_attributes" ->
            _compare_lambda_permission_attributes(s, l)
      [] comparator = "_compare_iam_role_policy_attributes" ->
            _compare_iam_role_policy_attributes(s, l)
      [] comparator = "_compare_iam_role_attributes" -> _compare_iam_role_attributes(s, l)
      [] comparator = "_compare_iam_policy_attributes" -> _compare_iam_policy_attributes(s, l)
      [] comparator = "_compare_iam_openid_connect_provider_attributes" ->
            _compare_iam_openid_connect_provider_attributes(s, l)
      [] comparator = "_compare_eventbridge_bus_attributes" ->
            _compare_eventbridge_bus_attributes(s, l)
      [] comparator = "_compare_eventbridge_rule_attributes" ->
            _compare_eventbridge_rule_attributes(s, l)
      [] comparator = "_compare_eventbridge_target_attributes" ->
            _compare_eventbridge_target_attributes(s, l)
      [] comparator = "_compare_ecs_cluster_attributes" -> _compare_ecs_cluster_attributes(s, l)
      [] comparator = "_compare_ecs_service_attributes" -> _compare_ecs_service_attributes(s, l)
      [] comparator = "_compare_cloudwatch_dashboard_attributes" ->
            _compare_cloudwatch_dashboard_attributes(s, l)
      [] comparator = "_compare_cloudwatch_alarm_attributes" ->
            _compare_cloudwatch_alarm_attributes(s, l)
      [] comparator = "_compare_sqs_queue_attributes" -> _compare_sqs_queue_attributes(s, l)
      [] OTHER -> <<>>

compare_attributes(state_attrs, live_attrs, resource_type) ==
    RunComparator(compare_attributes_route(resource_type), state_attrs, live_attrs)

-----------------------------------------------------------------------------
(* Identity keys *)

\* dict iteration order: the order in which the documents write the fields
FieldOrder ==
    <<"arn", "id", "name", "function_name", "statement_id", "role", "policy_arn", "queue_url",
      "url", "policy", "bucket", "rest_api_id", "resource_id", "http_method", "stage_name",
      "region", "account_id", "user_id", "action", "principal", "invoke_arn", "function_arn",
      "visibility_timeout_seconds", "QueueName", "TableName", "clusterName", "QueueArn",
      "VisibilityTimeout", "FunctionName", "FunctionArn", "Name", "Policy", "QueueUrl">>

\* field_name.endswith("_arn")
EndsWithArn(f) == f \in {"policy_arn", "invoke_arn", "function_arn", "role_arn"}

\* "arn" in field_name.lower()
NameHasArn(f) ==
    EndsWithArn(f) \/ f \in {"arn", "Arn", "ARN", "QueueArn", "FunctionArn", "RoleArn"}

\* arn_value and isinstance(arn_value, str) and arn_value.startswith("arn:aws:")
IsAwsArn(v) == Truthy(v) /\ IsStr(v) /\ StartsWith(Text(v), <<"arn", ":", "aws", ":">>)

\* no field name
NoField == ""

\* the first of the field names that passed a test, or NoField
FirstWith(hits) ==
    IF hits = <<>> THEN NoField ELSE Head(hits)

\* extract_arn_from_attributes: the ARN, or "raise" for ValueError
extract_arn_from_attributes(attributes, resource_type) ==
    LET IsArnAt(f) == f \in DOMAIN attributes /\ IsAwsArn(attributes[f])
        common == FirstWith(SelectSeq(<<"arn", "Arn", "ARN">>, IsArnAt))
        function_arn == Or(Get(attributes, "invoke_arn"), Get(attributes, "function_arn"))
        SuffixArnAt(f) == EndsWithArn(f) /\ IsArnAt(f)
        suffix == FirstWith(SelectSeq(FieldOrder, SuffixArnAt))
        AnyArnAt(f) == NameHasArn(f) /\ IsArnAt(f)
        any == FirstWith(SelectSeq(FieldOrder, AnyArnAt))
    IN  IF StartsWith(resource_type, aws_route_table) THEN <<"#raise">>
        ELSE IF common # NoField THEN attributes[common]
        ELSE IF StartsWith(resource_type, aws_lambda_function) /\ IsAwsArn(function_arn)
             THEN function_arn
        ELSE IF IsArnAt("id") THEN attributes["id"]
        ELSE IF suffix # NoField THEN attributes[suffix]
        ELSE IF any # NoField THEN attributes[any]
        ELSE <<"#raise">>

\* str(idx) for the instance indexes of the model
IdxStr(idx) == <<"0", "1", "2", "3", "4">>[idx + 1]

\* f"{resource_type}.{resource_name}_{idx}"
FallbackKey(resource_type, resource_name, idx) ==
    Str(resource_type \o <<".">> \o PyStr(resource_name) \o <<"_", IdxStr(idx)>>)

\* function_name.split(":")[-1] when function_name is a Lambda ARN
NormaliseFunctionName(function_name) ==
    IF StartsWith(function_name, <<"arn", ":", "aws", ":", "lambda", ":">>)
    THEN SplitLast(function_name, ":")
    ELSE function_name

-----------------------------------------------------------------------------
(* The observed map: a Python dict, kept in insertion order *)

LiveKeys(live) == {live[i].k : i \in 1..Len(live)}
LiveHas(live, key) == key \in LiveKeys(live)
LiveGet(live, key) == live[CHOOSE i \in 1..Len(live) : live[i].k = key].v

\* d[key] = value
LivePut(live, key, value) ==
    IF LiveHas(live, key)
    THEN [i \in 1..Len(live) |-> IF live[i].k = key THEN [k |-> key, v |-> value] ELSE live[i]]
    ELSE Append(live, [k |-> key, v |-> value])

\* d.update(other)
RECURSIVE LiveUpdate(_, _)
LiveUpdate(live, other) ==
    IF other = <<>> THEN live
    ELSE LiveUpdate(LivePut(live, Head(other).k, Head(other).v), Tail(other))

\* the concatenation of a sequence of sequences
RECURSIVE Flatten(_)
Flatten(ss) == IF ss = <<>> THEN <<>> ELSE Head(ss) \o Flatten(Tail(ss))

-----------------------------------------------------------------------------
(* compare_resources *)

MissingText == <<" exists in state but not in live AWS">>

MissingRecord(key) ==
    [resource_key |-> key, drift_type |-> "missing_resource",
     description |-> <<"Resource ">> \o PyStr(key) \o MissingText]

AttributeRecord(key, differences) ==
    [resource_key |-> key, drift_type |-> "attribute_drift",
     description |-> <<"Attribute drift detected for ">> \o PyStr(key),
     differences |-> differences]

\* f"prefix:{a}:{b}..." from attributes read with .get(field, "")
Composite(prefix, attributes, fields) ==
    Str(<<prefix>> \o Flatten([i \in 1..Len(fields) |->
            <<":">> \o PyStr(GetD(attributes, fields[i], EmptyStr))]))

\* the key compare_resources gives an instance (lines 110-171); the later
\* "if resource_type.startswith" blocks overwrite the earlier ones
compare_resources_key(resource_type, resource_name, idx, state_attributes) ==
    LET arn == extract_arn_from_attributes(state_attributes, resource_type)
        function_name == Text(GetD(state_attributes, "function_name", EmptyStr))
    IN  IF StartsWith(resource_type, aws_api_gateway_stage)
        THEN Composite("apigw_stage", state_attributes, <<"rest_api_id", "stage_name">>)
        ELSE IF StartsWith(resource_type, aws_api_gateway_rest_api)
        THEN Composite("apigw_rest_api", state_attributes, <<"id">>)
        ELSE IF StartsWith(resource_type, aws_api_gateway_resource)
        THEN Composite("apigw_resource", state_attributes, <<"rest_api_id", "resource_id">>)
        ELSE IF StartsWith(resource_type, aws_api_gateway_method)
        THEN Composite("apigw_method", state_attributes,
                       <<"rest_api_id", "resource_id", "http_method">>)
        ELSE IF StartsWith(resource_type, aws_api_gateway_integration)
        THEN Composite("apigw_integration", state_attributes,
                       <<"rest_api_id", "resource_id", "http_method">>)
        ELSE IF StartsWith(resource_type, aws_api_gateway_deployment)
        THEN Composite("apigw_deployment", state_attributes, <<"rest_api_id", "id">>)
        ELSE IF StartsWith(resource_type, aws_lambda_permission)
        THEN Str(<<"lambda_permission", ":">> \o NormaliseFunctionName(function_name)
                 \o <<":">> \o PyStr(GetD(state_attributes, "statement_id", EmptyStr)))
        ELSE IF StartsWith(resource_type, aws_cloudwatch_event_target)
        THEN Composite("event_target", state_attributes, <<"event_bus_name", "rule", "arn">>)
        ELSE IF Raised(arn) THEN FallbackKey(resource_type, resource_name, idx)
        ELSE arn

\* the generic block for one instance (lines 107-197)
InstanceDrifts(resource, i, live) ==
    LET state_attributes == resource.instances[i].attributes
        key == compare_resources_key(resource.type, resource.name, i - 1, state_attributes)
        differences == compare_attributes(state_attributes, LiveGet(live, key), resource.type)
    IN  IF ~LiveHas(live, key) THEN <<MissingRecord(key)>>
        ELSE IF differences # <<>> THEN <<AttributeRecord(key, differences)>>
        ELSE <<>>

\* the live policy the queue-policy block picks (lines 62-72): the Policy of the first
\* observed bag, in the map's order, whose QueueUrl equals queue_url or whose QueueArn
\* ends with the last segment of queue_url
LivePolicyFor(queue_url, live) ==
    LET Hit(e) ==
            \/ Get(e.v, "QueueUrl") = queue_url
            \/ /\ Truthy(queue_url)
               /\ EndsWith(Text(GetD(e.v, "QueueArn", EmptyStr)), SplitLast(Text(queue_url), "/"))
        hits == SelectSeq(live, Hit)
    IN  IF hits = <<>> THEN None ELSE Get(Head(hits).v, "Policy")

\* json.dumps(json.loads(raw), sort_keys=True, separators=(",", ":")) if raw else None
Canonical(raw) == IF Truthy(raw) THEN json_dumps(json_loads(raw)) ELSE None

\* the queue-policy block for one instance (lines 57-102)
QueuePolicyDrifts(resource, i, live) ==
    LET state_attributes == resource.instances[i].attributes
        queue_url == Get(state_attributes, "queue_url")
        state_policy_raw == Get(state_attributes, "policy")
        live_policy_raw == LivePolicyFor(queue_url, live)
        parse_error ==
            \/ Truthy(state_policy_raw) /\ Raised(json_loads(state_policy_raw))
            \/ Truthy(live_policy_raw) /\ Raised(json_loads(live_policy_raw))
        canonical_state_policy ==
            IF parse_error THEN state_policy_raw ELSE Canonical(state_policy_raw)
        canonical_live_policy ==
            IF parse_error THEN live_policy_raw ELSE Canonical(live_policy_raw)
        resource_identifier ==
            Str(resource.type \o <<".">> \o PyStr(resource.name) \o <<" [">>
                \o PyStr(queue_url) \o <<"]">>)
    IN  IF canonical_state_policy # canonical_live_policy
        THEN <<[resource_key |-> resource_identifier, drift_type |-> "attribute_drift",
                description |-> <<"Policy drift detected for ">> \o PyStr(resource_identifier),
                differences |-> <<[name |-> "policy", state |-> canonical_state_policy,
                                   live |-> canonical_live_policy]>>]>>
        ELSE <<>>

ResourceDrifts(resource, live) ==
    IF StartsWith(resource.type, aws_sqs_queue_policy)
    THEN Flatten([i \in 1..Len(resource.instances) |-> QueuePolicyDrifts(resource, i, live)])
    ELSE Flatten([i \in 1..Len(resource.instances) |-> InstanceDrifts(resource, i, live)])

\* the comparator calls of one resource, in order
ResourceCalls(resource, live) ==
    IF StartsWith(resource.type, aws_sqs_queue_policy) THEN <<>>
    ELSE Flatten([i \in 1..Len(resource.instances) |->
            IF LiveHas(live, compare_resources_key(resource.type, resource.name, i - 1,
                                                   resource.instances[i].attributes))
            THEN <<[resource_type |-> resource.type,
                    comparator |-> compare_attributes_route(resource.type)]>>
            ELSE <<>>])

\* compare_resources raises AttributeError: resource_type is None (line 55), or the
\* function_name of a Lambda permission is not a string (line 132)
compare_resources_raises(state) ==
    \E r \in 1..Len(state) :
        \/ state[r].type = None
        \/ /\ StartsWith(state[r].type, aws_lambda_permission)
           /\ \E i \in 1..Len(state[r].instances) :
                ~IsStr(GetD(state[r].instances[i].attributes, "function_name", EmptyStr))

compare_resources(state, live) ==
    [drifts |-> Flatten([r \in 1..Len(state) |-> ResourceDrifts(state[r], live)])]

compare_resources_calls(state, live) ==
    Flatten([r \in 1..Len(state) |-> ResourceCalls(state[r], live)])

-----------------------------------------------------------------------------
(* detect_drift: the key of a declared instance (core.py lines 70-234) *)

\* every (resource, instance) position of the document, in document order
Positions(state) ==
    Flatten([r \in 1..Len(state) |-> [i \in 1..Len(state[r].instances) |-> <<r, i>>]])

AttributesAt(state, p) == state[p[1]].instances[p[2]].attributes

\* the fields "Hybrid key extraction: ARN > ID > fallback" reads, in its order
HybridFields ==
    <<"arn", "Arn", "ARN", "id", "Id", "ID", "instance_id", "InstanceId", "resource_id",
      "ResourceId">>

\* the first hybrid field present with a truthy value, or NoField
HybridField(attributes) ==
    LET Has(f) == f \in DOMAIN attributes /\ Truthy(attributes[f])
    IN  FirstWith(SelectSeq(HybridFields, Has))

\* lines 206-232, and 383-407
HybridKey(resource_type, resource_name, idx, attributes) ==
    IF HybridField(attributes) # NoField THEN attributes[HybridField(attributes)]
    ELSE FallbackKey(resource_type, resource_name, idx)

\* lines 122-141: the ARN of the declared queue whose url, queue_url or id is queue_url
QueueArnInState(state, queue_url) ==
    LET QueueArnOf(attrs) ==
            Or(Get(attrs, "arn"), Or(Get(attrs, "queue_arn"), Get(attrs, "QueueArn")))
        Hit(p) ==
            /\ state[p[1]].type = aws_sqs_queue
            /\ \/ Get(AttributesAt(state, p), "url") = queue_url
               \/ Get(AttributesAt(state, p), "queue_url") = queue_url
               \/ Get(AttributesAt(state, p), "id") = queue_url
            /\ Truthy(QueueArnOf(AttributesAt(state, p)))
        hits == SelectSeq(Positions(state), Hit)
    IN  IF hits = <<>> THEN None ELSE QueueArnOf(AttributesAt(state, Head(hits)))

detect_drift_key(resource_type, resource_name, idx, attributes, state) ==
    LET fallback == FallbackKey(resource_type, resource_name, idx)
        A(f) == Get(attributes, f)
        T(f) == Truthy(A(f))
        P(f) == PyStr(A(f))
    IN  IF resource_type = aws_lambda_permission
        THEN IF T("function_name") /\ T("statement_id")
             THEN Str(<<"lambda_permission", ":">>
                      \o NormaliseFunctionName(Text(A("function_name")))
                      \o <<":">> \o P("statement_id"))
             ELSE Or(A("statement_id"), fallback)
        ELSE IF resource_type = aws_api_gateway_stage
        THEN IF T("arn") THEN A("arn")
             ELSE IF T("region") /\ T("rest_api_id") /\ T("stage_name")
             THEN Str(<<"arn", ":", "aws", ":", "apigateway", ":">> \o P("region")
                      \o <<":", ":", "/", "restapis", "/">> \o P("rest_api_id")
                      \o <<"/", "stages", "/">> \o P("stage_name"))
             ELSE fallback
        ELSE IF resource_type = aws_api_gateway_integration
        THEN IF T("rest_api_id") /\ T("resource_id") /\ T("http_method")
             THEN Str(<<"agi", "-">> \o P("rest_api_id") \o <<"-">> \o P("resource_id")
                      \o <<"-">> \o P("http_method"))
             ELSE fallback
        ELSE IF resource_type = aws_sqs_queue_policy
        THEN IF T("arn") THEN A("arn")
             ELSE IF T("queue_url")
             THEN Or(QueueArnInState(state, A("queue_url")), A("queue_url"))
             ELSE IF T("id") THEN A("id")
             ELSE fallback
        ELSE IF resource_type = aws_api_gateway_rest_api
        THEN IF T("arn") THEN A("arn")
             ELSE IF T("region") /\ Truthy(Or(A("id"), A("rest_api_id")))
             THEN Str(<<"arn", ":", "aws", ":", "apigateway", ":">> \o P("region")
                      \o <<":", ":", "/", "restapis", "/">>
                      \o PyStr(Or(A("id"), A("rest_api_id"))))
             ELSE fallback
        ELSE IF resource_type = aws_route_table
        THEN IF T("arn") THEN A("arn")
             ELSE IF T("region") /\ T("account_id") /\ T("id")
             THEN Str(<<"arn", ":", "aws", ":", "ec2", ":">> \o P("region") \o <<":">>
                      \o P("account_id") \o <<":", "route-table", "/">> \o P("id"))
             ELSE Or(A("id"), fallback)
        ELSE IF resource_type = aws_route_table_association
        THEN Or(A("id"), fallback)
        ELSE IF resource_type = aws_api_gateway_method
        THEN IF T("rest_api_id") /\ T("resource_id") /\ T("http_method")
             THEN Str(<<"agm", "-">> \o P("rest_api_id") \o <<"-">> \o P("resource_id")
                      \o <<"-">> \o P("http_method"))
             ELSE fallback
        ELSE IF resource_type = aws_iam_role_policy_attachment
        THEN IF Truthy(Or(A("role"), A("role_name"))) /\ T("policy_arn")
             THEN Str(PyStr(Or(A("role"), A("role_name"))) \o <<"/">> \o P("policy_arn"))
             ELSE fallback
        ELSE IF resource_type = aws_cloudwatch_dashboard
        THEN IF T("arn") THEN A("arn")
             ELSE IF Truthy(Or(A("dashboard_name"), A("id"))) /\ T("region") /\ T("account_id")
             THEN Str(<<"arn", ":", "aws", ":", "cloudwatch", ":">> \o P("region") \o <<":">>
                      \o P("account_id") \o <<":", "dashboard", "/">>
                      \o PyStr(Or(A("dashboard_name"), A("id"))))
             ELSE Or(Or(A("dashboard_name"), A("id")), fallback)
        ELSE HybridKey(resource_type, resource_name, idx, attributes)

\* the key detect_drift gives the instance at position p
KeyAt(state, p) ==
    detect_drift_key(state[p[1]].type, state[p[1]].name, p[2] - 1, AttributesAt(state, p), state)

\* the key compare_resources gives the instance at position p
CompareKeyAt(state, p) ==
    compare_resources_key(state[p[1]].type, state[p[1]].name, p[2] - 1, AttributesAt(state, p))

\* all_state_resources (line 233)
all_state_resources(state) == {KeyAt(state, Positions(state)[n]) : n \in 1..Len(Positions(state))}

\* state_resource_key_map (line 234): the last instance written under the key
state_resource_key_map(state, key) ==
    LET ps == Positions(state)
        last == CHOOSE n \in 1..Len(ps) :
                    /\ KeyAt(state, ps[n]) = key
                    /\ \A m \in 1..Len(ps) : KeyAt(state, ps[m]) = key => m <= n
    IN  [resource_type |-> state[ps[last][1]].type,
         resource_name |-> state[ps[last][1]].name,
         idx |-> ps[last][2] - 1]

\* drifted_resources (line 243)
drifted_resources(drifts) ==
    {Str(SplitFirst(Text(drifts[n].resource_key), " [")) : n \in 1..Len(drifts)}

-----------------------------------------------------------------------------
(* detect_drift: matching, meta resources and the report (lines 276-469) *)

META_RESOURCE_TYPES == {aws_region, aws_caller_identity}

\* the orders in which a Python set may be iterated
Orders(S) == {o \in [1..Cardinality(S) -> S] : \A i, j \in 1..Cardinality(S) : o[i] = o[j] => i = j}

\* lines 284-312
AwsLiveName(resource_type, live_attributes) ==
    LET In(f) == f \in DOMAIN live_attributes
        generic == FirstWith(SelectSeq(<<"name", "Name", "id", "Id">>, In))
    IN  CASE resource_type = aws_api_gateway_rest_api -> Get(live_attributes, "name")
          [] resource_type = aws_cloudwatch_dashboard -> Get(live_attributes, "DashboardName")
          [] resource_type = aws_dynamodb_table -> Get(live_attributes, "TableName")
          [] resource_type = aws_ecs_cluster -> Get(live_attributes, "clusterName")
          [] resource_type = aws_ecs_service -> Get(live_attributes, "serviceName")
          [] resource_type = aws_iam_role -> Get(live_attributes, "RoleName")
          [] resource_type = aws_iam_role_policy -> Get(live_attributes, "policy_name")
          [] resource_type = aws_region -> Get(live_attributes, "RegionName")
          [] resource_type = aws_sqs_queue -> Get(live_attributes, "QueueName")
          [] resource_type = aws_sqs_queue_policy -> Get(live_attributes, "QueueUrl")
          [] resource_type = aws_vpc -> Get(live_attributes, "VpcId")
          [] OTHER -> IF generic = NoField THEN None ELSE live_attributes[generic]

\* lines 319-348
DisplayName(resource_type, resource_name, resource_key, aws_live_name, live_attributes) ==
    LET placeholder == Str(resource_type \o <<":">> \o PyStr(resource_key))
        Named(f) == Truthy(Get(live_attributes, f))
        candidate == FirstWith(SelectSeq(<<"function_name", "FunctionName", "clusterName", "serviceName",
                                 "TableName", "RoleName", "policy_name", "QueueName", "id", "Id",
                                 "arn", "Arn">>, Named))
        logical_name ==
            IF Truthy(resource_name) /\ resource_name # Str(<<"this">>) THEN resource_name
            ELSE IF Truthy(aws_live_name) THEN aws_live_name
            ELSE IF candidate # NoField THEN live_attributes[candidate]
            ELSE placeholder
    IN  IF Truthy(aws_live_name) /\ logical_name # aws_live_name
        THEN Str(PyStr(logical_name) \o <<" (AWS: ">> \o PyStr(aws_live_name) \o <<")">>)
        ELSE logical_name

\* the descriptor appended for a matched key (lines 282-357)
MatchingDescriptor(state, live, resource_key) ==
    LET e == state_resource_key_map(state, resource_key)
        live_attributes == LiveGet(live, resource_key)
        aws_live_name == AwsLiveName(e.resource_type, live_attributes)
    IN  [resource_type |-> e.resource_type, resource_name |-> e.resource_name,
         aws_live_name |-> aws_live_name,
         display_name |-> DisplayName(e.resource_type, e.resource_name, resource_key,
                                      aws_live_name, live_attributes)]

\* the loop of lines 277-357 over the keys in the order `order`
MatchingResources(state, live, drifted, order) ==
    Flatten([n \in 1..Len(order) |->
        IF IsStr(order[n]) /\ order[n] \notin drifted
        THEN <<MatchingDescriptor(state, live, order[n])>>
        ELSE <<>>])

\* the meta loop (lines 377-415): positions of the instances of a meta kind
MetaPositions(state) ==
    LET IsMeta(p) == state[p[1]].type \in META_RESOURCE_TYPES
    IN  SelectSeq(Positions(state), IsMeta)

MetaKeyAt(state, p) ==
    HybridKey(state[p[1]].type, state[p[1]].name, p[2] - 1, AttributesAt(state, p))

MetaResources(state) ==
    LET ps == MetaPositions(state)
    IN  [n \in 1..Len(ps) |->
            [resource_type |-> state[ps[n][1]].type, resource_name |-> state[ps[n][1]].name,
             value |-> IF HybridField(AttributesAt(state, ps[n])) # NoField
                       THEN MetaKeyAt(state, ps[n])
                       ELSE Str(<<"(no id/arn)">>)]]

MetaResourceKeys(state) ==
    {MetaKeyAt(state, MetaPositions(state)[n]) : n \in 1..Len(MetaPositions(state))}

\* the patch loop (lines 428-438) over the keys in the order `order`
RECURSIVE PatchDrifts(_, _, _)
PatchDrifts(drifts, state_keys, order) ==
    IF order = <<>> THEN drifts
    ELSE LET resource_key == Head(order)
             already_reported == \E n \in 1..Len(drifts) : drifts[n].resource_key = resource_key
         IN  PatchDrifts(IF IsStr(resource_key) /\ resource_key \in state_keys
                            /\ ~already_reported
                         THEN Append(drifts, MissingRecord(resource_key))
                         ELSE drifts,
                         state_keys, Tail(order))

\* lines 441-451
UnmatchedResources(state, order) ==
    Flatten([n \in 1..Len(order) |->
        IF IsStr(order[n]) /\ order[n] \in all_state_resources(state)
        THEN <<[resource_type |-> state_resource_key_map(state, order[n]).resource_type,
                resource_name |-> state_resource_key_map(state, order[n]).resource_name,
                key |-> order[n]]>>
        ELSE <<>>])

RECURSIVE SumLen(_)
SumLen(state) == IF state = <<>> THEN 0 ELSE Len(Head(state).instances) + SumLen(Tail(state))

\* matched_keys (line 369)
MatchedKeys(state, live, report) ==
    {k \in all_state_resources(state) \cap LiveKeys(live) :
        k \notin drifted_resources(report.drifts)}

\* unmatched_undetected (line 418)
UnmatchedUndetected(state, live, report) ==
    ((all_state_resources(state) \ MatchedKeys(state, live, report))
        \ drifted_resources(report.drifts)) \ MetaResourceKeys(state)

\* the report of lines 454-469, for the iteration orders of the two sets
Report(state, live, report, match_order, unmatched_order) ==
    LET drifted == drifted_resources(report.drifts)
        all_state == all_state_resources(state)
        matched_keys == {k \in all_state \cap LiveKeys(live) : k \notin drifted}
        drifts == PatchDrifts(report.drifts, all_state, unmatched_order)
    IN  [drift_detected |-> Len(drifts) > 0,
         drifts |-> drifts,
         summary |->
            [resource_block_count |-> Len(state),
             total_instance_count |-> SumLen(state),
             total_resources |-> Cardinality(all_state),
             drift_count |-> Cardinality(drifted),
             matching_resources |-> MatchingResources(state, live, drifted, match_order),
             skipped_resources |-> (all_state \ matched_keys) \ drifted,
             meta_resources |-> MetaResources(state),
             unmatched_undetected_resources |-> UnmatchedResources(state, unmatched_order),
             unmatched_resources |-> UnmatchedResources(state, unmatched_order)]]

\* an error result that still carries the summary of a report
ErrorResultWithSummary ==
    [error |-> "exception", drift_detected |-> FALSE, drifts |-> <<>>,
     summary |-> [total_resources |-> 0, drift_count |-> 0]]

\* the value returned by the except clause (line 473)
ErrorResult == [error |-> "exception", drift_detected |-> FALSE, drifts |-> <<>>]

-----------------------------------------------------------------------------
(* get_live_aws_resources and the fetchers it calls *)

\* extract_apigateway_key (fetchers/base.py lines 138-168)
extract_apigateway_key(attributes, resource_type, resource_name, idx) ==
    LET A(f) == Get(attributes, f)
        rest_api_id == Or(A("rest_api_id"), A("restApiId"))
        resource_id == Or(A("resource_id"), Or(A("resourceId"), A("id")))
        http_method == Or(A("http_method"), A("httpMethod"))
        complete == Truthy(rest_api_id) /\ Truthy(resource_id) /\ Truthy(http_method)
    IN  IF Truthy(A("arn")) THEN Str(PyStr(A("arn")))
        ELSE IF Truthy(A("id")) THEN Str(PyStr(A("id")))
        ELSE IF resource_type = aws_api_gateway_method /\ complete
        THEN Str(<<"agm", "-">> \o PyStr(rest_api_id) \o <<"-">> \o PyStr(resource_id)
                 \o <<"-">> \o PyStr(http_method))
        ELSE IF resource_type = aws_api_gateway_integration /\ complete
        THEN Str(<<"apigw_integration", ":">> \o PyStr(rest_api_id) \o <<":">>
                 \o PyStr(resource_id) \o <<":">> \o PyStr(http_method))
        ELSE FallbackKey(resource_type, resource_name, idx)

\* unique_resource_key (lines 262-293)
unique_resource_key(resource_type, resource_name, idx, attributes) ==
    LET A(f) == Get(attributes, f)
        fallback == FallbackKey(resource_type, resource_name, idx)
        arn == extract_arn_from_attributes(attributes, resource_type)
    IN  IF resource_type = aws_route_table_association THEN Or(A("id"), fallback)
        ELSE IF resource_type = aws_iam_role_policy_attachment
        THEN IF Truthy(A("role")) /\ Truthy(A("policy_arn"))
             THEN Str(PyStr(A("role")) \o <<"/">> \o PyStr(A("policy_arn")))
             ELSE fallback
        ELSE IF \/ StartsWith(resource_type, aws_api_gateway_rest_api)
                \/ StartsWith(resource_type, aws_api_gateway_resource)
                \/ StartsWith(resource_type, aws_api_gateway_method)
                \/ StartsWith(resource_type, aws_api_gateway_integration)
                \/ StartsWith(resource_type, aws_api_gateway_deployment)
                \/ StartsWith(resource_type, aws_api_gateway_stage)
        THEN extract_apigateway_key(attributes, resource_type, resource_name, idx)
        ELSE IF Raised(arn) THEN fallback ELSE arn

\* the queue name read from a name or URL: the part after the last "/" of a URL
QueueNameOf(name) ==
    IF StartsWith(name, <<"https:", "/", "/">>) THEN SplitLast(name, "/") ELSE name

\* the key handed to the fetcher: unique_resource_key as the dispatch branch
\* rewrites it (lines 314-333 and 405-410)
fetch_key(resource_type, resource_name, idx, attributes) ==
    LET key == unique_resource_key(resource_type, resource_name, idx, attributes)
        event_bus_name == GetD(attributes, "event_bus_name", EmptyStr)
        queue_name == GetD(attributes, "name", EmptyStr)
    IN  IF StartsWith(resource_type, aws_cloudwatch_event_rule) /\ Truthy(event_bus_name)
        THEN Str(PyStr(key) \o <<"_">> \o PyStr(event_bus_name))
        ELSE IF StartsWith(resource_type, aws_cloudwatch_event_target)
        THEN Composite("event_target", attributes, <<"event_bus_name", "rule", "arn">>)
        ELSE IF StartsWith(resource_type, aws_lambda_permission)
        THEN Str(<<"lambda_permission", ":">>
                 \o NormaliseFunctionName(Text(GetD(attributes, "function_name", EmptyStr)))
                 \o <<":">> \o PyStr(GetD(attributes, "statement_id", EmptyStr)))
        ELSE IF StartsWith(resource_type, aws_sqs_queue) /\ Truthy(queue_name)
        THEN Str(PyStr(key) \o <<"_">> \o QueueNameOf(Text(queue_name)))
        ELSE key

Entry(key, value) == [k |-> key, v |-> value]

\* _fetch_sqs_queues (sqs_fetchers.py lines 46-89)
_fetch_sqs_queues(sqs, resource_key, attributes) ==
    LET raw == Or(Get(attributes, "name"), Get(attributes, "id"))
        queue_name ==
            IF Truthy(raw) /\ IsStr(raw) THEN Str(QueueNameOf(Text(raw))) ELSE raw
        Match(queue_url) == Truthy(queue_name) /\ Str(SplitLast(Text(queue_url), "/")) = queue_name
        hits == SelectSeq(sqs.QueueUrls, Match)
    IN  IF hits = <<>> THEN <<>>
        ELSE <<Entry(resource_key, sqs.Attributes[Head(hits)])>>

\* extract_hybrid_key_from_lambda (lambda_fetchers.py lines 17-28)
extract_hybrid_key_from_lambda(function) ==
    IF Truthy(Get(function, "FunctionArn")) THEN Str(PyStr(function["FunctionArn"]))
    ELSE IF Truthy(Get(function, "FunctionName")) THEN Str(PyStr(function["FunctionName"]))
    ELSE Str(<<"aws_lambda_function", ".", "unknown">>)

\* _fetch_lambda_functions (lines 57-77): every function the provider lists
_fetch_lambda_functions(lambda, resource_key, attributes) ==
    [n \in 1..Len(lambda.Functions) |->
        Entry(extract_hybrid_key_from_lambda(lambda.Functions[n]), lambda.Functions[n])]

\* _fetch_lambda_permissions (lines 81-123)
_fetch_lambda_permissions(lambda, resource_key, attributes) ==
    LET function_name == Get(attributes, "function_name")
        statement_id == Get(attributes, "statement_id")
        name == NormaliseFunctionName(Text(function_name))
        statements == lambda.Policy[name]
    IN  IF ~Truthy(function_name) \/ ~Truthy(statement_id) THEN <<>>
        ELSE IF name \notin DOMAIN lambda.Policy THEN <<>>
        ELSE [n \in 1..Len(statements) |->
                Entry(Str(name \o <<":">> \o PyStr(Get(statements[n], "Sid"))),
                      [f \in {"Sid", "Action", "Effect", "Principal", "Resource", "Condition"}
                          |-> Get(statements[n], f)])]

\* fetch_lambda_resources (lines 32-53)
fetch_lambda_resources(lambda, resource_key, attributes, resource_type) ==
    IF resource_type # <<>> /\ StartsWith(resource_type, aws_lambda_permission)
    THEN _fetch_lambda_permissions(lambda, resource_key, attributes)
    ELSE _fetch_lambda_functions(lambda, resource_key, attributes)

\* _fetch_s3_buckets (s3_fetchers.py lines 33-53)
_fetch_s3_buckets(s3, resource_key, attributes) ==
    LET bucket_name == Or(Get(attributes, "bucket"), Get(attributes, "id"))
        Match(bucket) == Truthy(bucket_name) /\ Get(bucket, "Name") = bucket_name
        hits == SelectSeq(s3.Buckets, Match)
    IN  IF hits = <<>> THEN <<>> ELSE <<Entry(resource_key, Head(hits))>>

\* _fetch_iam_role_policy_attachments (iam_fetchers.py lines 204-242)
_fetch_iam_role_policy_attachments(iam, resource_key, attributes) ==
    LET role_name == Get(attributes, "role")
        attached == iam.AttachedPolicies[role_name]
    IN  IF ~Truthy(role_name) THEN <<>>
        ELSE IF role_name \notin DOMAIN iam.AttachedPolicies THEN <<>>
        ELSE [n \in 1..Len(attached) |->
                Entry(Str(PyStr(role_name) \o <<"/">> \o PyStr(Get(attached[n], "PolicyArn"))),
                      ("role_name" :> role_name)
                      @@ ("policy_arn" :> Get(attached[n], "PolicyArn"))
                      @@ ("policy_name" :> Get(attached[n], "PolicyName")))]

\* attributes["role"] = resource_key.split("/")[0]
WithRole(resource_key, attributes) ==
    ("role" :> Str(SplitFirst(Text(resource_key), "/"))) @@ attributes

\* the same branch writing the role into the bag it was handed
RoleFromKeyInPlace(resource_key, attributes) ==
    IF ~Truthy(Get(attributes, "role")) /\ Truthy(resource_key)
    THEN [local |-> WithRole(resource_key, attributes),
          declared |-> WithRole(resource_key, attributes)]
    ELSE [local |-> attributes, declared |-> attributes]

\* lines 46-50: a missing role is read from the key "role/policy_arn" and written to
\* a copy (attributes = dict(attributes)): `local` is the bag the function goes on
\* with, `declared` the bag of the caller once the function has returned
RoleFromKey(resource_key, attributes) ==
    IF ~Truthy(Get(attributes, "role")) /\ Truthy(resource_key)
    THEN [local |-> WithRole(resource_key, attributes), declared |-> attributes]
    ELSE [local |-> attributes, declared |-> attributes]

\* fetch_iam_resources (lines 32-82), for role-policy attachments: the branch
\* tested first
fetch_iam_resources(iam, resource_key, attributes, resource_type) ==
    IF StartsWith(resource_type, aws_iam_role_policy_attachment)
    THEN _fetch_iam_role_policy_attachments(iam, resource_key,
                                            RoleFromKey(resource_key, attributes).local)
    ELSE <<>>

\* the bag stored for a target that was not found (events_fetchers.py lines 237-243)
NoTargetData ==
    [f \in {"target_id", "arn", "input", "input_path", "input_transformer"} |-> None]

\* _fetch_eventbridge_targets (events_fetchers.py lines 110-270).  The key is built
\* again from the bag, an absent field rendered "None"; a bus or rule the provider does
\* not know makes list_targets_by_rule raise and the loop continue.
_fetch_eventbridge_targets(events, resource_key, attributes) ==
    LET target_arn == Get(attributes, "arn")
        rule_name == Get(attributes, "rule")
        event_bus_name == Get(attributes, "event_bus_name")
        composite_key ==
            Str(<<"event_target", ":">> \o PyStr(event_bus_name) \o <<":">> \o PyStr(rule_name)
                \o <<":">> \o PyStr(target_arn))
        buses_to_check ==
            IF Truthy(event_bus_name) THEN <<event_bus_name>> ELSE events.EventBuses
        Targets(bus_name) ==
            IF <<bus_name, rule_name>> \in DOMAIN events.Targets
            THEN events.Targets[<<bus_name, rule_name>>]
            ELSE <<>>
        Match(target) == Get(target, "Arn") = target_arn
        hits == SelectSeq(Flatten([b \in 1..Len(buses_to_check) |->
                                     Targets(buses_to_check[b])]), Match)
    IN  IF ~Truthy(target_arn) \/ ~Truthy(rule_name) THEN <<>>
        ELSE IF hits # <<>>
        THEN <<Entry(composite_key,
                     ("target_id" :> Get(Head(hits), "Id")) @@ ("arn" :> target_arn)
                     @@ ("input" :> Get(Head(hits), "Input"))
                     @@ ("input_path" :> Get(Head(hits), "InputPath"))
                     @@ ("input_transformer" :> Get(Head(hits), "InputTransformer")))>>
        ELSE <<Entry(composite_key, NoTargetData)>>

\* fetch_data_source_resources (data_source_fetchers.py lines 10-87)
fetch_data_source_resources(sts, region_name, resource_key, attributes, resource_type) ==
    IF StartsWith(resource_type, aws_region)
    THEN <<Entry(resource_key,
                 ("name" :> region_name)
                 @@ ("description" :> Str(<<"Current AWS region: ">> \o Text(region_name)))
                 @@ ("endpoint" :> Str(<<"https:", "/", "/">> \o Text(region_name)
                                       \o <<".", "amazonaws", ".", "com">>))
                 @@ ("id" :> region_name))>>
    ELSE IF StartsWith(resource_type, aws_caller_identity)
    THEN IF sts.raises THEN <<>>
         ELSE <<Entry(resource_key,
                      ("account_id" :> sts.Account) @@ ("arn" :> sts.Arn)
                      @@ ("user_id" :> sts.UserId) @@ ("id" :> sts.Account))>>
    ELSE <<>>

\* the dispatch of lines 296-411 for one instance: what live_resources.update receives.
\* The branches kept are those of the kinds the documents of Spec declare, in the
\* order of the code; a kind with no branch fetches nothing.
Fetched(world, resource_type, resource_name, idx, attributes) ==
    LET key == fetch_key(resource_type, resource_name, idx, attributes)
    IN  IF StartsWith(resource_type, aws_s3_bucket)
        THEN _fetch_s3_buckets(world.s3, key, attributes)
        ELSE IF StartsWith(resource_type, aws_lambda_function)
        THEN fetch_lambda_resources(world.lambda, key, attributes, <<>>)
        ELSE IF \/ StartsWith(resource_type, aws_iam_role_policy)
                \/ StartsWith(resource_type, aws_iam_role)
                \/ StartsWith(resource_type, aws_iam_policy)
                \/ StartsWith(resource_type, aws_iam_openid_connect_provider)
                \/ StartsWith(resource_type, aws_iam_role_policy_attachment)
        THEN fetch_iam_resources(world.iam, key, attributes, resource_type)
        ELSE IF StartsWith(resource_type, aws_cloudwatch_event_target)
        THEN _fetch_eventbridge_targets(world.events, key, attributes)
        ELSE IF StartsWith(resource_type, aws_lambda_permission)
        THEN fetch_lambda_resources(world.lambda, key, attributes, resource_type)
        ELSE IF StartsWith(resource_type, aws_region) \/ StartsWith(resource_type, aws_caller_identity)
        THEN fetch_data_source_resources(world.sts, world.region_name, key, attributes,
                                         resource_type)
        ELSE IF StartsWith(resource_type, aws_sqs_queue)
        THEN _fetch_sqs_queues(world.sqs, key, attributes)
        ELSE <<>>

\* resource.get("type", "")
TypeOrEmpty(resource_type) == IF resource_type = None THEN <<>> ELSE resource_type

\* get_live_aws_resources raises AttributeError: the function_name of a Lambda
\* permission or the name of a queue is present and not a string (lines 330, 408)
get_live_aws_resources_raises(state) ==
    \E n \in 1..Len(Positions(state)) :
        LET p == Positions(state)[n]
            rt == TypeOrEmpty(state[p[1]].type)
        IN  \/ /\ StartsWith(rt, aws_lambda_permission)
               /\ ~IsStr(GetD(AttributesAt(state, p), "function_name", EmptyStr))
            \/ /\ StartsWith(rt, aws_sqs_queue)
               /\ Truthy(GetD(AttributesAt(state, p), "name", EmptyStr))
               /\ ~IsStr(GetD(AttributesAt(state, p), "name", EmptyStr))

\* the declared bag of an instance once its fetcher has returned: the fetchers
\* receive the bag itself (attributes = instance.get("attributes", {}), line 261)
AttributesAfterFetch(resource_type, resource_name, idx, attributes) ==
    IF StartsWith(resource_type, aws_iam_role_policy_attachment)
    THEN RoleFromKey(fetch_key(resource_type, resource_name, idx, attributes),
                     attributes).declared
    ELSE attributes

\* the document after get_live_aws_resources has returned
DeclaredAfterFetch(state) ==
    [r \in 1..Len(state) |->
        [type |-> state[r].type, name |-> state[r].name,
         instances |->
            [i \in 1..Len(state[r].instances) |->
                [attributes |->
                    AttributesAfterFetch(TypeOrEmpty(state[r].type), state[r].name, i - 1,
                                         state[r].instances[i].attributes)]]]]

get_live_aws_resources(state, world) ==
    LET ps == Positions(state)
    IN  LiveUpdate(<<>>, Flatten([n \in 1..Len(ps) |->
            Fetched(world, TypeOrEmpty(state[ps[n][1]].type), state[ps[n][1]].name,
                    ps[n][2] - 1, AttributesAt(state, ps[n]))]))

-----------------------------------------------------------------------------
(* The declarations and provider states the model explores *)

\* the largest number of resource blocks in a document
MaxResources == 2

Arn(service, name) == <<"arn", ":", "aws", ":", service, ":", name>>
ArnXQ1 == <<"arn", ":", "x", ":", "q1">>
PolicyArnP1 == <<"arn", ":", "aws", ":", "iam", ":", "policy", "/", "p1">>
QueueUrl(name) == <<"https:", "/", "/", "sqs", "/", name>>
S(token) == Str(<<token>>)

Decl(type, name, bags) ==
    [type |-> type, name |-> S(name),
     instances |-> [i \in 1..Len(bags) |-> [attributes |-> bags[i]]]]

\* the declared bags: the queue of the specification's scenario, bags as Terraform
\* writes them, and the bags of tests/test_drift_detector.py
Catalogue ==
    << Decl(aws_sqs_queue, "orders",
            <<("arn" :> Str(Arn("sqs", "q2"))) @@ ("id" :> Str(QueueUrl("q2")))
              @@ ("url" :> Str(QueueUrl("q2"))) @@ ("name" :> S("q2"))
              @@ ("visibility_timeout_seconds" :> Int("30"))>>),
       Decl(aws_sqs_queue_policy, "orders",
            <<("id" :> Str(QueueUrl("q2"))) @@ ("queue_url" :> Str(QueueUrl("q2")))
              @@ ("policy" :> Str(JsonText("p1", "spaced")))>>),
       Decl(aws_lambda_function, "my_func",
            <<("function_name" :> S("my-func")) @@ ("arn" :> Str(Arn("lambda", "my-func")))>>),
       Decl(aws_lambda_permission, "allow",
            <<("function_name" :> S("my-func")) @@ ("statement_id" :> S("s1"))
              @@ ("action" :> S("lambda:InvokeFunction"))
              @@ ("principal" :> S("events.amazonaws.com"))>>),
       Decl(aws_lambda_permission, "broken",
            <<("function_name" :> None) @@ ("statement_id" :> S("s2"))>>),
       Decl(aws_region, "current", <<("id" :> S("eu-west-2")) @@ ("name" :> S("eu-west-2"))>>),
       Decl(aws_caller_identity, "current",
            <<("account_id" :> S("123")) @@ ("arn" :> Str(Arn("iam", "user")))
              @@ ("id" :> S("123")) @@ ("user_id" :> S("U1"))>>),
       Decl(aws_s3_bucket, "b",
            <<("arn" :> Str(Arn("s3", "b1"))) @@ ("bucket" :> S("b1")),
              ("arn" :> Str(Arn("s3", "b2"))) @@ ("bucket" :> S("b2"))>>),
       Decl(aws_iam_role_policy_attachment, "a",
            <<("role" :> S("r1")) @@ ("policy_arn" :> Str(PolicyArnP1))>>),
       Decl(aws_kms_key, "k", <<("arn" :> Str(Arn("kms", "k1"))) @@ ("id" :> S("k1"))>>),
       Decl(aws_iam_role_policy_attachment, "norole",
            <<("policy_arn" :> Str(PolicyArnP1))>>),
       Decl(aws_cloudwatch_event_target, "t",
            <<("rule" :> S("my-rule")) @@ ("arn" :> Str(Arn("lambda", "my-func")))
              @@ ("target_id" :> S("t1")) @@ ("event_bus_name" :> S("default"))>>),
       Decl(aws_sqs_queue, "q",
            <<("arn" :> Str(ArnXQ1)) @@ ("visibility_timeout_seconds" :> Int("30"))>>),
       Decl(aws_sqs_queue, "my_queue",
            <<("arn" :> Str(Arn("sqs", "my-queue"))) @@ ("QueueName" :> S("my-queue"))>>),
       Decl(aws_dynamodb_table, "my_table",
            <<("arn" :> Str(Arn("dynamodb", "my-table"))) @@ ("TableName" :> S("my-table"))>>),
       Decl(aws_ecs_cluster, "my_cluster",
            <<("arn" :> Str(Arn("ecs", "my-cluster"))) @@ ("clusterName" :> S("my-cluster"))>>),
       Decl(aws_cloudwatch_event_rule, "my_rule",
            <<("arn" :> Str(Arn("events", "my-rule"))) @@ ("name" :> S("my-rule"))>>),
       Decl(aws_api_gateway_resource, "my_resource",
            <<("rest_api_id" :> S("apiid")) @@ ("resource_id" :> S("resid"))
              @@ ("id" :> S("resid"))>> ) >>

\* the declarations whose kinds the fetch dispatch above covers
FetchCatalogue == SubSeq(Catalogue, 1, 12)

\* the documents of at most MaxResources blocks of a catalogue, in its order
Documents(catalogue) ==
    LET Pick(chosen) ==
            LET In(i) == i \in chosen
                picks == SelectSeq([i \in 1..Len(catalogue) |-> i], In)
            IN  [n \in 1..Len(picks) |-> catalogue[picks[n]]]
    IN  {Pick(chosen) :
            chosen \in {c \in SUBSET (1..Len(catalogue)) : Cardinality(c) <= MaxResources}}

EmptyMap == [f \in {} |-> <<>>]

\* a provider state: what the service clients answer.  In "synced" every declared
\* resource exists as declared, in "drifted" some differ or are gone, in "empty"
\* nothing exists and the identity call fails.
World(kind) ==
    LET timeout == IF kind = "synced" THEN "30" ELSE "60"
        policy == IF kind = "synced" THEN "p1" ELSE "p2"
        bucket(name) == ("Name" :> S(name)) @@ ("CreationDate" :> S("2024"))
        statement ==
            ("Sid" :> S("s1")) @@ ("Effect" :> S("Allow"))
            @@ ("Action" :> S("lambda:InvokeFunction"))
            @@ ("Principal" :> Service(<<"events.amazonaws.com">>))
            @@ ("Resource" :> Str(Arn("lambda", "my-func")))
    IN  [kind |-> kind,
         region_name |-> S("eu-west-2"),
         sts |-> [raises |-> kind = "empty", Account |-> S("123"),
                  Arn |-> Str(Arn("iam", "user")), UserId |-> S("U1")],
         sqs |-> IF kind = "empty" THEN [QueueUrls |-> <<>>, Attributes |-> EmptyMap]
                 ELSE [QueueUrls |-> <<Str(QueueUrl("q2"))>>,
                       Attributes |->
                         (Str(QueueUrl("q2")) :>
                            (("QueueArn" :> Str(Arn("sqs", "q2")))
                             @@ ("VisibilityTimeout" :> S(timeout))
                             @@ ("Policy" :> Str(JsonText(policy, "compact-sorted")))))],
         lambda |-> IF kind = "empty" THEN [Functions |-> <<>>, Policy |-> EmptyMap]
                    ELSE [Functions |->
                            <<("FunctionName" :> S("my-func"))
                              @@ ("FunctionArn" :> Str(Arn("lambda", "my-func")))>>,
                          Policy |-> IF kind = "synced" THEN (<<"my-func">> :> <<statement>>)
                                     ELSE (<<"my-func">> :> <<>>)],
         s3 |-> [Buckets |-> IF kind = "synced" THEN <<bucket("b1"), bucket("b2")>>
                             ELSE IF kind = "drifted" THEN <<bucket("b1")>>
                             ELSE <<>>],
         events |-> [EventBuses |-> IF kind = "empty" THEN <<>> ELSE <<S("default")>>,
                     Targets |->
                        IF kind = "synced"
                        THEN (<<S("default"), S("my-rule")>> :>
                                <<("Id" :> S("t1")) @@ ("Arn" :> Str(Arn("lambda", "my-func")))>>)
                        ELSE IF kind = "drifted"
                        THEN (<<S("default"), S("my-rule")>> :> <<>>)
                        ELSE EmptyMap],
         iam |-> [AttachedPolicies |->
                    IF kind = "synced"
                    THEN (S("r1") :> <<("PolicyArn" :> Str(PolicyArnP1))
                                       @@ ("PolicyName" :> S("p1"))>>)
                    ELSE IF kind = "drifted" THEN (S("r1") :> <<>>)
                    ELSE EmptyMap]]

Worlds == {World("synced"), World("drifted"), World("empty")}

\* get_live_aws_resources replaced by a mock, as the unit tests do
Mocked == [kind |-> "mocked"]

\* the attribute a drift test changes on the observed side
VariedField(resource_type) ==
    CASE resource_type = aws_lambda_function -> "function_name"
      [] resource_type = aws_sqs_queue -> "QueueName"
      [] resource_type = aws_dynamodb_table -> "TableName"
      [] resource_type = aws_ecs_cluster -> "clusterName"
      [] resource_type = aws_cloudwatch_event_rule -> "name"
      [] resource_type = aws_api_gateway_resource -> "id"
      [] resource_type = aws_s3_bucket -> "bucket"
      [] OTHER -> "name"

\* the bag whose field f holds "other" and which is bag elsewhere
Varied(bag, f) == [g \in DOMAIN bag |-> IF g = f THEN S("other") ELSE bag[g]]

\* the observed bag a mocked observed map holds for a declared bag: the declared bag
\* itself, the declared bag with one attribute changed, or for a queue the bag in the
\* provider's vocabulary with the given timeout
GivenBag(mode, resource_type, attributes) ==
    IF mode = "varied" THEN Varied(attributes, VariedField(resource_type))
    ELSE IF mode \in {"30", "60"} /\ resource_type = aws_sqs_queue /\ "arn" \in DOMAIN attributes
    THEN ("QueueArn" :> attributes["arn"]) @@ ("VisibilityTimeout" :> S(mode))
    ELSE attributes

GivenModes == {"same", "varied", "30", "60"}

\* a mocked observed map: the bags of the instances at the positions in `present`,
\* each stored under the key compare_resources or under the key detect_drift derives
GivenLive(state, present, mode, key_of) ==
    LET ps == Positions(state)
        Stored(n) ==
            Entry(IF key_of = "compare_resources"
                  THEN compare_resources_key(state[ps[n][1]].type, state[ps[n][1]].name,
                                             ps[n][2] - 1, AttributesAt(state, ps[n]))
                  ELSE detect_drift_key(state[ps[n][1]].type, state[ps[n][1]].name,
                                        ps[n][2] - 1, AttributesAt(state, ps[n]), state),
                  GivenBag(mode, state[ps[n][1]].type, AttributesAt(state, ps[n])))
    IN  LiveUpdate(<<>>, Flatten([n \in 1..Len(ps) |->
                                    IF n \in present THEN <<Stored(n)>> ELSE <<>>]))

\* all positions, none, or all but one
PresentSets(count) == {1..count, {}} \cup {(1..count) \ {n} : n \in 1..count}

-----------------------------------------------------------------------------
(* detect_drift as a state machine *)

NoReport == [drifts |-> <<>>]
NoResult == [pending |-> TRUE]

\* detect_drift is called directly: no handler and no runner around it
NoCaller ==
    /\ environ = <<>>
    /\ args = <<>>
    /\ response = <<>>
    /\ sys_exit = <<>>

\* detect_drift is called: the document is parsed (lines 32-40), nothing is fetched yet
Init ==
    /\ pc = "start"
    /\ state_data \in Documents(FetchCatalogue)
    /\ provider \in Worlds
    /\ live_resources = <<>>
    /\ drift_report = NoReport
    /\ calls = <<>>
    /\ keys = <<>>
    /\ result = NoResult
    /\ NoCaller

\* detect_drift or compare_resources is called with a given observed map
InitGiven ==
    /\ pc = "fetched"
    /\ state_data \in Documents(Catalogue)
    /\ provider = Mocked
    /\ \E present \in PresentSets(Len(Positions(state_data))), mode \in GivenModes,
          key_of \in {"compare_resources", "detect_drift"} :
            live_resources = GivenLive(state_data, present, mode, key_of)
    /\ drift_report = NoReport
    /\ calls = <<>>
    /\ keys = <<>>
    /\ result = NoResult
    /\ NoCaller

\* line 44: live_resources = get_live_aws_resources(state_data, region_name)
GetLive ==
    /\ pc = "start"
    /\ ~get_live_aws_resources_raises(state_data)
    /\ live_resources' = get_live_aws_resources(state_data, provider)
    /\ state_data' = DeclaredAfterFetch(state_data)
    /\ pc' = "fetched"
    /\ UNCHANGED <<provider, drift_report, calls, keys, result>>
    /\ UNCHANGED caller

\* line 48: drift_report = compare_resources(state_data, live_resources)
Compare ==
    /\ pc = "fetched"
    /\ ~compare_resources_raises(state_data)
    /\ drift_report' = compare_resources(state_data, live_resources)
    /\ calls' = compare_resources_calls(state_data, live_resources)
    /\ pc' = "compared"
    /\ UNCHANGED <<state_data, provider, live_resources, keys, result>>
    /\ UNCHANGED caller

\* lines 63-234: the key of every declared instance
ResolveKeys ==
    /\ pc = "compared"
    /\ keys' = [n \in 1..Len(Positions(state_data)) |->
                    KeyAt(state_data, Positions(state_data)[n])]
    /\ pc' = "keyed"
    /\ UNCHANGED <<state_data, provider, live_resources, drift_report, calls, result>>
    /\ UNCHANGED caller

\* lines 242-469: the classification and the report, for some iteration order of the
\* sets the loops run over
Classify ==
    /\ pc = "keyed"
    /\ \E match_order \in Orders(all_state_resources(state_data) \cap LiveKeys(live_resources)),
          unmatched_order \in
              Orders(UnmatchedUndetected(state_data, live_resources, drift_report)) :
            result' = Report(state_data, live_resources, drift_report, match_order,
                             unmatched_order)
    /\ pc' = "reported"
    /\ UNCHANGED <<state_data, provider, live_resources, drift_report, calls, keys>>
    /\ UNCHANGED caller

\* lines 471-473: an exception raised by a step is caught and reported
Fail ==
    /\ \/ pc = "start" /\ get_live_aws_resources_raises(state_data)
       \/ pc = "fetched" /\ compare_resources_raises(state_data)
    /\ result' = ErrorResult
    /\ pc' = "error"
    /\ UNCHANGED <<state_data, provider, live_resources, drift_report, calls, keys>>
    /\ UNCHANGED caller

Next == GetLive \/ Compare \/ ResolveKeys \/ Classify \/ Fail

Spec == Init /\ [][Next]_vars

NextGiven == Compare \/ ResolveKeys \/ Classify \/ Fail

EngineSpec == InitGiven /\ [][NextGiven]_vars

-----------------------------------------------------------------------------
(* Key resolution on bounded declared bags: detect_drift is run on documents  *)
(* whose bags hold every combination of absent, null, empty and set fields,   *)
(* with get_live_aws_resources mocked to return an empty map.                 *)

\* a field the bag does not carry
Absent == <<"#absent">>

\* what a field of a declared bag may be: absent, null, "", [] or a value
FieldValues == {Absent, None, EmptyStr, EmptyList, S("a")}

\* the bag that holds fields[i] |-> values[i] wherever values[i] is not Absent
BagOf(fields, values) ==
    LET present == {i \in 1..Len(fields) : values[i] # Absent}
    IN  [f \in {fields[i] : i \in present} |->
            values[CHOOSE i \in present : fields[i] = f]]

\* the fields the composite keys are built from (comparators/base.py lines 120-171,
\* core.py lines 186-190)
CompositeFields(resource_type) ==
    CASE resource_type = aws_lambda_permission -> <<"function_name", "statement_id">>
      [] resource_type = aws_api_gateway_method -> <<"rest_api_id", "resource_id", "http_method">>
      [] resource_type = aws_api_gateway_integration ->
            <<"rest_api_id", "resource_id", "http_method">>
      [] resource_type = aws_api_gateway_stage -> <<"rest_api_id", "stage_name">>
      [] resource_type = aws_api_gateway_deployment -> <<"rest_api_id", "id">>
      [] resource_type = aws_api_gateway_resource -> <<"rest_api_id", "resource_id">>
      [] resource_type = aws_iam_role_policy_attachment -> <<"role", "policy_arn">>
      [] resource_type = aws_cloudwatch_event_target -> <<"event_bus_name", "rule", "arn">>
      [] OTHER -> <<>>

CompositeKinds ==
    {aws_lambda_permission, aws_api_gateway_method, aws_api_gateway_integration,
     aws_api_gateway_stage, aws_api_gateway_deployment, aws_api_gateway_resource,
     aws_iam_role_policy_attachment, aws_cloudwatch_event_target}

\* kinds keyed by the generic strategy at every call site
SimpleKinds == {aws_kms_key, aws_dynamodb_table}

\* the bags of a simple kind: an ARN that is absent, empty, an AWS ARN or another
\* text, with or without an id and an instance_id
SimpleBags ==
    {BagOf(<<"arn", "id", "instance_id">>, <<a, i, j>>) :
        a \in {Absent, EmptyStr, Str(Arn("kms", "k1")), S("plain")},
        i \in {Absent, EmptyStr, S("a")},
        j \in {Absent, S("b")}}

\* the bags of a composite kind, each field drawn from `values`
CompositeBags(resource_type, values) ==
    LET fields == CompositeFields(resource_type)
    IN  {BagOf(fields, v) : v \in [1..Len(fields) -> values]}

\* one block of one instance, and two blocks of the same kind and name whose bags
\* carry every composite field
KeyDocuments ==
    {<<Decl(kind, "t", <<bag>>)>> : kind \in SimpleKinds, bag \in SimpleBags}
    \cup UNION {{<<Decl(kind, "t", <<bag>>)>> : bag \in CompositeBags(kind, FieldValues)} :
                    kind \in CompositeKinds}
    \cup UNION {{<<Decl(kind, "t", <<b1>>), Decl(kind, "t", <<b2>>)>> :
                    b1 \in CompositeBags(kind, {S("a"), S("b")}),
                    b2 \in CompositeBags(kind, {S("a"), S("b")})} :
                    kind \in CompositeKinds}

InitKeys ==
    /\ pc = "fetched"
    /\ state_data \in KeyDocuments
    /\ provider = Mocked
    /\ live_resources = <<>>
    /\ drift_report = NoReport
    /\ calls = <<>>
    /\ keys = <<>>
    /\ result = NoResult
    /\ NoCaller

KeySpec == InitKeys /\ [][NextGiven]_vars

-----------------------------------------------------------------------------
(* Comparators on bounded bags: compare_resources is run on one declared        *)
(* instance whose observed bag is stored under the key compare_resources gives  *)
(* it; one attribute is varied on each side.  compare_sqs_queue_policy_attributes *)
(* is applied to the declared and the observed bag of a queue policy.           *)

\* a principal: a bare service name or the structured form {"Service": name}
PrincipalValues == {S("events"), Service(<<"events">>), S("sns"), Service(<<"sns">>)}

\* a policy attribute: not set, a serialisation of document p1, a serialisation of p2,
\* a decoded document, or a text that is not JSON
PolicyValues ==
    {Absent, None, EmptyStr, EmptyList, Dict("p1"), Dict("p2"), S("bad1"), S("bad2"),
     Str(JsonText("p2", "compact-sorted"))}
    \cup {Str(JsonText("p1", layout)) : layout \in Layouts}

\* the declared bag and the observed bag of each comparison
PermissionPairs ==
    {<<BagOf(<<"function_name", "statement_id", "action", "principal">>,
             <<S("f"), S("s"), S("invoke"), d>>),
       BagOf(<<"Sid", "Action", "Principal">>, <<S("s"), S("invoke"), o>>)>> :
        d \in PrincipalValues, o \in PrincipalValues}

RulePairs ==
    {<<BagOf(<<"arn", "name", "description">>, <<Str(Arn("events", "r1")), S("r1"), d>>),
       BagOf(<<"Name", "Description">>, <<S("r1"), o>>)>> :
        d \in FieldValues, o \in FieldValues}

TargetPairs ==
    {<<BagOf(<<"rule", "arn", "target_id", "input">>,
             <<S("r1"), Str(Arn("lambda", "f")), S("t1"), d>>),
       BagOf(<<"arn", "target_id", "input">>, <<Str(Arn("lambda", "f")), S("t1"), o>>)>> :
        d \in FieldValues, o \in FieldValues}

QueuePairs ==
    {<<BagOf(<<"arn", "name", "delay_seconds">>, <<Str(Arn("sqs", "q1")), S("q1"), d>>),
       BagOf(<<"QueueArn", "DelaySeconds">>, <<Str(Arn("sqs", "q1")), o>>)>> :
        d \in FieldValues, o \in FieldValues}

RolePolicyPairs ==
    {<<BagOf(<<"role", "name", "policy">>, <<S("r1"), S("p"), d>>),
       BagOf(<<"role_name", "policy_name", "policy">>, <<S("r1"), S("p"), o>>)>> :
        d \in PolicyValues, o \in PolicyValues}

\* the observed policy is stored as "Policy" (read by compare_resources, line 67) or
\* as "policy" (read by compare_sqs_queue_policy_attributes, line 20)
QueuePolicyPairs ==
    {<<BagOf(<<"queue_url", "policy">>, <<Str(QueueUrl("q1")), d>>),
       BagOf(<<"QueueUrl", field>>, <<Str(QueueUrl("q1")), o>>)>> :
        d \in PolicyValues, o \in PolicyValues, field \in {"Policy", "policy"}}

ComparedPairs(resource_type) ==
    CASE resource_type = aws_lambda_permission -> PermissionPairs
      [] resource_type = aws_cloudwatch_event_rule -> RulePairs
      [] resource_type = aws_cloudwatch_event_target -> TargetPairs
      [] resource_type = aws_sqs_queue -> QueuePairs
      [] resource_type = aws_iam_role_policy -> RolePolicyPairs
      [] resource_type = aws_sqs_queue_policy -> QueuePolicyPairs
      [] OTHER -> {}

ComparedKinds ==
    {aws_lambda_permission, aws_cloudwatch_event_rule, aws_cloudwatch_event_target,
     aws_sqs_queue, aws_iam_role_policy, aws_sqs_queue_policy}

\* compare_sqs_queue_policy_attributes (sqs_queue_policy_comparators.py lines 9-48):
\* a policy that is neither a dict nor a parseable string becomes None
PolicyDict(policy) ==
    IF IsDict(policy) THEN policy
    ELSE IF IsStr(policy) /\ ~Raised(json_loads(policy)) THEN json_loads(policy)
    ELSE None

\* json.dumps(d, sort_keys=True) if d is not None else "Missing or invalid"
PolicyText(policy_dict) ==
    IF policy_dict = None THEN <<"Missing or invalid">>
    ELSE JsonText(policy_dict[2], "spaced")

compare_sqs_queue_policy_attributes(state_attrs, live_attrs) ==
    LET state_policy_dict == PolicyDict(Get(state_attrs, "policy"))
        live_policy_dict == PolicyDict(Get(live_attrs, "policy"))
    IN  IF state_policy_dict # live_policy_dict
        THEN <<[attribute |-> "policy", state |-> PolicyText(state_policy_dict),
                live |-> PolicyText(live_policy_dict)]>>
        ELSE <<>>

InitCompared ==
    /\ pc = "fetched"
    /\ \E kind \in ComparedKinds : \E pair \in ComparedPairs(kind) :
          /\ state_data = <<Decl(kind, "t", <<pair[1]>>)>>
          /\ live_resources =
                <<Entry(compare_resources_key(kind, S("t"), 0, pair[1]), pair[2])>>
    /\ provider = Mocked
    /\ drift_report = NoReport
    /\ calls = <<>>
    /\ keys = <<>>
    /\ result = NoResult
    /\ NoCaller

\* compare_sqs_queue_policy_attributes(state_attrs, live_attrs) is called on the
\* declared bag of a queue policy and the observed bag of its queue
CompareQueuePolicy ==
    /\ pc = "fetched"
    /\ StartsWith(state_data[1].type, aws_sqs_queue_policy)
    /\ result' = [differences |->
                    compare_sqs_queue_policy_attributes(
                        state_data[1].instances[1].attributes, live_resources[1].v)]
    /\ pc' = "policy_compared"
    /\ UNCHANGED <<state_data, provider, live_resources, drift_report, calls, keys>>
    /\ UNCHANGED caller

NextCompared == Compare \/ CompareQueuePolicy

ComparatorSpec == InitCompared /\ [][NextCompared]_vars

-----------------------------------------------------------------------------
(* compare_resources on a queue policy and an observed map of several resources *)

\* the observed bag of a queue as _fetch_sqs_queues stores it (sqs_fetchers.py line 81),
\* under the queue's ARN
ObservedQueue(name, policy_id) ==
    Entry(Str(<<"arn", ":", "aws", ":", "sqs", ":">> \o name),
          ("QueueArn" :> Str(<<"arn", ":", "aws", ":", "sqs", ":">> \o name))
          @@ ("Policy" :> Str(JsonText(policy_id, "compact-sorted"))))

\* the queue the policy is declared for, a queue whose name ends with that queue's
\* name, and a bucket
ObservedEntries ==
    {ObservedQueue(<<"q1">>, "p1"), ObservedQueue(<<"my-", "q1">>, "p2"),
     Entry(Str(Arn("s3", "b1")), ("Name" :> S("b1")))}

\* the observed maps over a set of entries: every subset in every insertion order
ObservedMaps(entries) == UNION {Orders(es) : es \in SUBSET entries}

\* compare_resources is called on a document declaring one queue policy
InitQueuePolicy ==
    /\ pc = "fetched"
    /\ \E queue_url \in {Str(QueueUrl("q1")), Absent}, policy_id \in {"p1", "p2"} :
          state_data =
              <<Decl(aws_sqs_queue_policy, "t",
                     <<BagOf(<<"queue_url", "policy">>,
                             <<queue_url, Str(JsonText(policy_id, "spaced"))>>)>>)>>
    /\ live_resources \in ObservedMaps(ObservedEntries)
    /\ provider = Mocked
    /\ drift_report = NoReport
    /\ calls = <<>>
    /\ keys = <<>>
    /\ result = NoResult
    /\ NoCaller

NextQueuePolicy == Compare \/ ResolveKeys \/ Classify

QueuePolicySpec == InitQueuePolicy /\ [][NextQueuePolicy]_vars

-----------------------------------------------------------------------------
(* lambda_handler (main.py) around load_config (config.py) and detect_drift *)

S3Path == <<"s3://", "bucket", "/", "key">>
BarePath == <<"bucket", "/", "key">>

\* os.environ restricted to the variables load_config reads; Absent where unset
Environs ==
    [STATE_FILE_S3_PATH : {Absent, <<>>, BarePath, S3Path},
     LOG_LEVEL : {Absent, <<"DEBUG">>, <<"VERBOSE">>},
     MAX_RETRIES : {Absent, <<"5">>, <<"five">>},
     TIMEOUT_SECONDS : {Absent, <<"soon">>}]

\* os.environ.get(name, default)
Getenv(env, name, default) == IF env[name] = Absent THEN default ELSE env[name]

\* int(text) raises ValueError unless text is a decimal numeral
int_raises(text) == text \notin {<<"3">>, <<"5">>, <<"30">>}

\* load_config (config.py lines 21-54): the Config, or the ValueError it raises
load_config(env) ==
    LET s3_state_path == env.STATE_FILE_S3_PATH
        max_retries == Getenv(env, "MAX_RETRIES", <<"3">>)
        timeout_seconds == Getenv(env, "TIMEOUT_SECONDS", <<"30">>)
    IN  IF \/ s3_state_path \in {Absent, <<>>}
           \/ ~StartsWith(s3_state_path, <<"s3://">>)
           \/ int_raises(max_retries)
           \/ int_raises(timeout_seconds)
        THEN [raises |-> "ValueError", log_level |-> <<>>]
        ELSE [raises |-> "", log_level |-> Getenv(env, "LOG_LEVEL", <<"INFO">>)]

\* setup_logging (utils.py line 26): getattr(logging, log_level.upper()) raises
\* AttributeError for a name the logging module does not define
setup_logging_raises(log_level) ==
    log_level \notin {<<"DEBUG">>, <<"INFO">>, <<"WARNING">>, <<"ERROR">>, <<"CRITICAL">>}

\* the exception raised before detect_drift is called (main.py lines 23-27), "" if none
HandlerSetupRaises(env) ==
    IF load_config(env).raises # "" THEN load_config(env).raises
    ELSE IF setup_logging_raises(load_config(env).log_level) THEN "AttributeError"
    ELSE ""

\* the except clauses of lambda_handler (main.py lines 55-81).  Both begin with
\* logger.error(...), and logger is a local of lambda_handler assigned at line 26:
\* where that assignment was not reached the clause itself raises UnboundLocalError.
HandlerExcept(exception, logger_bound) ==
    IF ~logger_bound THEN [raises |-> "UnboundLocalError"]
    ELSE IF exception = "ValueError"
         THEN [statusCode |-> 400, error |-> "Configuration error"]
         ELSE [statusCode |-> 500, error |-> "Internal server error"]

\* main.py lines 46-52
HandlerReturn(report) == [statusCode |-> 200, body |-> <<"json.dumps", report>>]

\* lambda_handler is invoked: nothing is loaded yet
InitHandler ==
    /\ pc = "invoked"
    /\ state_data = <<>>
    /\ provider = Mocked
    /\ live_resources = <<>>
    /\ drift_report = NoReport
    /\ calls = <<>>
    /\ keys = <<>>
    /\ result = NoResult
    /\ environ \in Environs
    /\ args = <<>>
    /\ response = <<>>
    /\ sys_exit = <<>>

\* main.py lines 23-40: the configuration loads, the logger is set up and
\* detect_drift is called; it downloads and parses the document
LoadConfig ==
    /\ pc = "invoked"
    /\ HandlerSetupRaises(environ) = ""
    /\ state_data' \in Documents(FetchCatalogue)
    /\ provider' \in Worlds
    /\ pc' = "start"
    /\ UNCHANGED <<live_resources, drift_report, calls, keys, result, caller>>

\* main.py lines 23-27 raise: control passes to an except clause before line 26
\* has bound logger
ConfigFails ==
    /\ pc = "invoked"
    /\ HandlerSetupRaises(environ) # ""
    /\ response' = HandlerExcept(HandlerSetupRaises(environ), FALSE)
    /\ pc' = "returned"
    /\ UNCHANGED <<state_data, provider, live_resources, drift_report, calls, keys, result,
                   environ, args, sys_exit>>

\* main.py lines 40-52: detect_drift returned (it never raises), the report is
\* serialised and returned
Respond ==
    /\ pc \in {"reported", "error"}
    /\ response' = HandlerReturn(result)
    /\ pc' = "returned"
    /\ UNCHANGED <<state_data, provider, live_resources, drift_report, calls, keys, result,
                   environ, args, sys_exit>>

NextHandler == LoadConfig \/ ConfigFails \/ GetLive \/ Compare \/ ResolveKeys \/ Classify
               \/ Fail \/ Respond

HandlerSpec == InitHandler /\ [][NextHandler]_vars

-----------------------------------------------------------------------------
(* main of run_drift_detector.py around detect_drift *)

\* the parsed command line, restricted to what main branches on
ArgsSet == [s3_path : {S3Path, BarePath}, output_format : {"json", "pretty"}]

\* lines 113-118: the exit code and the line logged before it
ExitFor(report) ==
    IF report.drift_detected
    THEN [code |-> 1, logged |-> "Drift detected! Exiting with code 1"]
    ELSE [code |-> 0, logged |-> "No drift detected. Exiting with code 0"]

\* main has parsed its arguments
InitRunner ==
    /\ pc = "main"
    /\ state_data = <<>>
    /\ provider = Mocked
    /\ live_resources = <<>>
    /\ drift_report = NoReport
    /\ calls = <<>>
    /\ keys = <<>>
    /\ result = NoResult
    /\ environ = <<>>
    /\ args \in ArgsSet
    /\ response = <<>>
    /\ sys_exit = <<>>

\* lines 80-104: the path is accepted and detect_drift is called
RunDetector ==
    /\ pc = "main"
    /\ StartsWith(args.s3_path, <<"s3://">>)
    /\ state_data' \in Documents(FetchCatalogue)
    /\ provider' \in Worlds
    /\ pc' = "start"
    /\ UNCHANGED <<live_resources, drift_report, calls, keys, result, caller>>

\* lines 80-82: the path is rejected
RejectPath ==
    /\ pc = "main"
    /\ ~StartsWith(args.s3_path, <<"s3://">>)
    /\ sys_exit' = [code |-> 1, logged |-> "ERROR: S3 path must start with 's3://'"]
    /\ pc' = "exited"
    /\ UNCHANGED <<state_data, provider, live_resources, drift_report, calls, keys, result,
                   environ, args, response>>

\* lines 104-118: detect_drift returned, the report is printed in either format
\* (both read it with .get and accept the error outcome) and the process exits
Exit ==
    /\ pc \in {"reported", "error"}
    /\ sys_exit' = ExitFor(result)
    /\ pc' = "exited"
    /\ UNCHANGED <<state_data, provider, live_resources, drift_report, calls, keys, result,
                   environ, args, response>>

NextRunner == RunDetector \/ RejectPath \/ GetLive \/ Compare \/ ResolveKeys \/ Classify
              \/ Fail \/ Exit

RunnerSpec == InitRunner /\ [][NextRunner]_vars

-----------------------------------------------------------------------------
(* Vocabulary of the properties *)

Count == Len(Positions(state_data))
PositionAt(n) == Positions(state_data)[n]
TypeAt(n) == state_data[PositionAt(n)[1]].type
NameAt(n) == state_data[PositionAt(n)[1]].name
BagAt(n) == AttributesAt(state_data, PositionAt(n))

\* the key of a drift record as detect_drift reads it (line 243)
RecordKey(record) == Str(SplitFirst(Text(record.resource_key), " ["))

\* the key under which compare_resources reports instance n
ReportedKeyAt(n) ==
    IF StartsWith(TypeAt(n), aws_sqs_queue_policy)
    THEN Str(TypeAt(n) \o <<".">> \o PyStr(NameAt(n)))
    ELSE CompareKeyAt(state_data, PositionAt(n))

\* the records of a drift list that are about instance n: those under the key
\* detect_drift gives it or under the key compare_resources reports it with
RecordsFor(drifts, n) ==
    {i \in 1..Len(drifts) :
        RecordKey(drifts[i]) \in {KeyAt(state_data, PositionAt(n)), ReportedKeyAt(n)}}

IsMatched(n) ==
    /\ keys[n] \in MatchedKeys(state_data, live_resources, drift_report)
    /\ \E i \in 1..Len(result.summary.matching_resources) :
          result.summary.matching_resources[i]
              = MatchingDescriptor(state_data, live_resources, keys[n])

IsAttributeDrifted(n) ==
    \E i \in RecordsFor(result.drifts, n) : result.drifts[i].drift_type = "attribute_drift"

IsMissing(n) ==
    \E i \in RecordsFor(result.drifts, n) : result.drifts[i].drift_type = "missing_resource"

IsMeta(n) ==
    \E i \in 1..Len(result.summary.meta_resources) :
        /\ result.summary.meta_resources[i].resource_type = TypeAt(n)
        /\ result.summary.meta_resources[i].resource_name = NameAt(n)

IsUnaccounted(n) ==
    \E i \in 1..Len(result.summary.unmatched_undetected_resources) :
        result.summary.unmatched_undetected_resources[i].key = keys[n]

\* the classifications instance n is in
ClassesOf(n) ==
    {c \in {"matched", "attribute-drifted", "missing", "meta", "unaccounted"} :
        CASE c = "matched" -> IsMatched(n)
          [] c = "attribute-drifted" -> IsAttributeDrifted(n)
          [] c = "missing" -> IsMissing(n)
          [] c = "meta" -> IsMeta(n)
          [] OTHER -> IsUnaccounted(n)}

-----------------------------------------------------------------------------
(* Properties *)

\* C1: after a successful detect_drift run every declared instance is in exactly one
\* of the five classifications matched, attribute-drifted, missing, meta, unaccounted.
C1_ExactlyOneClassification ==
    pc = "reported" => \A n \in 1..Count : Cardinality(ClassesOf(n)) = 1

\* the resource an instance declares exists in the provider
ExistsInProvider(world, resource_type, attributes) ==
    CASE resource_type = aws_sqs_queue ->
            \E i \in 1..Len(world.sqs.QueueUrls) :
                Str(SplitLast(Text(world.sqs.QueueUrls[i]), "/")) = Get(attributes, "name")
      [] resource_type = aws_lambda_function ->
            \E i \in 1..Len(world.lambda.Functions) :
                world.lambda.Functions[i]["FunctionName"] = Get(attributes, "function_name")
      [] resource_type = aws_lambda_permission ->
            /\ IsStr(Get(attributes, "function_name"))
            /\ Text(attributes["function_name"]) \in DOMAIN world.lambda.Policy
            /\ \E i \in 1..Len(world.lambda.Policy[Text(attributes["function_name"])]) :
                  world.lambda.Policy[Text(attributes["function_name"])][i]["Sid"]
                      = Get(attributes, "statement_id")
      [] resource_type = aws_s3_bucket ->
            \E i \in 1..Len(world.s3.Buckets) :
                world.s3.Buckets[i]["Name"] = Get(attributes, "bucket")
      [] resource_type = aws_iam_role_policy_attachment ->
            /\ Get(attributes, "role") \in DOMAIN world.iam.AttachedPolicies
            /\ \E i \in 1..Len(world.iam.AttachedPolicies[attributes["role"]]) :
                  world.iam.AttachedPolicies[attributes["role"]][i]["PolicyArn"]
                      = Get(attributes, "policy_arn")
      [] resource_type = aws_region -> TRUE
      [] resource_type = aws_caller_identity -> ~world.sts.raises
      [] OTHER -> FALSE

\* C2: for every declared instance of a supported kind whose resource exists in the
\* provider, the key get_live_aws_resources stores the observed bag under is the key
\* detect_drift computes for the instance, so that key is a key of the observed map.
C2_FetchedUnderDeclaredKey ==
    pc \in {"fetched", "compared", "keyed", "reported"} =>
        \A n \in 1..Count :
            ExistsInProvider(provider, TypeAt(n), BagAt(n)) =>
                LiveHas(live_resources, KeyAt(state_data, PositionAt(n)))

\* C3: compare_resources, detect_drift and get_live_aws_resources derive the same key
\* from a declared bag, so every drift record's resource_key is one of the keys
\* detect_drift gives the declared instances.
C3_OneKeyDerivation ==
    pc \in {"keyed", "reported"} =>
        /\ \A n \in 1..Count :
              /\ keys[n] = CompareKeyAt(state_data, PositionAt(n))
              /\ keys[n] = unique_resource_key(TypeAt(n), NameAt(n), PositionAt(n)[2] - 1,
                                               BagAt(n))
        /\ \A i \in 1..Len(drift_report.drifts) :
              drift_report.drifts[i].resource_key \in {keys[n] : n \in 1..Count}

\* C4: a declared instance (of a kind that is not a meta kind) whose key is absent
\* from the observed map has exactly one drift record, of type missing_resource,
\* whose description contains the key; with an empty observed map every such
\* instance has exactly one record and every record is a missing_resource record.
C4_OneMissingRecord ==
    pc = "reported" =>
        /\ \A n \in 1..Count :
              TypeAt(n) \notin META_RESOURCE_TYPES /\ ~LiveHas(live_resources, keys[n]) =>
                  /\ Cardinality(RecordsFor(result.drifts, n)) = 1
                  /\ \A i \in RecordsFor(result.drifts, n) :
                        /\ result.drifts[i].drift_type = "missing_resource"
                        /\ Contains(result.drifts[i].description, PyStr(keys[n]))
        /\ live_resources = <<>> =>
              \A i \in 1..Len(result.drifts) :
                  result.drifts[i].drift_type = "missing_resource"

\* the queue of the scenario: declared with arn "arn:x:q1" and timeout 30, observed
\* under "arn:x:q1" with QueueArn "arn:x:q1" and the given VisibilityTimeout
ScenarioQueue(n, timeout) ==
    /\ TypeAt(n) = aws_sqs_queue
    /\ BagAt(n) = ("arn" :> Str(ArnXQ1)) @@ ("visibility_timeout_seconds" :> Int("30"))
    /\ LiveHas(live_resources, Str(ArnXQ1))
    /\ LiveGet(live_resources, Str(ArnXQ1))
          = ("QueueArn" :> Str(ArnXQ1)) @@ ("VisibilityTimeout" :> S(timeout))

\* C5: the scenario queue observed with VisibilityTimeout "30" is classified matched,
\* has zero attribute differences and no drift record.
C5_QueueMatched ==
    pc = "reported" =>
        \A n \in 1..Count :
            ScenarioQueue(n, "30") =>
                /\ ClassesOf(n) = {"matched"}
                /\ RecordsFor(result.drifts, n) = {}
                /\ compare_attributes(BagAt(n), LiveGet(live_resources, Str(ArnXQ1)),
                                      TypeAt(n)) = <<>>

\* C6: the scenario queue observed with VisibilityTimeout "60" has exactly one drift
\* record, carrying exactly one difference: visibility_timeout_seconds, "30", "60".
C6_QueueTimeoutDrift ==
    pc = "reported" =>
        \A n \in 1..Count :
            ScenarioQueue(n, "60") =>
                /\ Cardinality(RecordsFor(result.drifts, n)) = 1
                /\ \A i \in RecordsFor(result.drifts, n) :
                      /\ result.drifts[i].drift_type = "attribute_drift"
                      /\ result.drifts[i].differences
                            = <<Detail("visibility_timeout_seconds", <<"30">>, <<"60">>)>>

\* instance n is in the declared set only: no key of the observed map is its key
OnlyDeclared(n) ==
    /\ ~LiveHas(live_resources, keys[n])
    /\ ~LiveHas(live_resources, ReportedKeyAt(n))

\* C7: a declared instance of a meta kind that is present only in the declared set
\* is listed in meta_resources, has no drift record, and does not count in
\* drift_count or drift_detected.
C7_MetaNeverDrift ==
    pc = "reported" =>
        /\ \A n \in 1..Count :
              TypeAt(n) \in META_RESOURCE_TYPES /\ OnlyDeclared(n) =>
                  /\ IsMeta(n)
                  /\ RecordsFor(result.drifts, n) = {}
                  /\ keys[n] \notin drifted_resources(drift_report.drifts)
        /\ (\A n \in 1..Count : TypeAt(n) \in META_RESOURCE_TYPES /\ OnlyDeclared(n)) =>
              /\ result.summary.drift_count = 0
              /\ ~result.drift_detected

\* compare_resources has run
Compared == pc \in {"compared", "keyed", "reported"}

\* the observed map stores `bag` under the key compare_resources gives instance n
ObservedAs(n, bag) ==
    /\ ~StartsWith(TypeAt(n), aws_sqs_queue_policy)
    /\ LiveHas(live_resources, CompareKeyAt(state_data, PositionAt(n)))
    /\ LiveGet(live_resources, CompareKeyAt(state_data, PositionAt(n))) = bag

\* the records compare_resources returned under the key it gives instance n
ComparedRecords(n) ==
    {i \in 1..Len(drift_report.drifts) :
        drift_report.drifts[i].resource_key = CompareKeyAt(state_data, PositionAt(n))}

\* C8: a bag compared with itself yields no difference for every dispatched kind, so
\* compare_resources returns no drift record for an instance whose observed bag,
\* stored under the instance's key, is identical to its declared bag.
C8_SelfComparisonEmpty ==
    Compared =>
        \A n \in 1..Count :
            ObservedAs(n, BagAt(n)) =>
                /\ compare_attributes(BagAt(n), BagAt(n), TypeAt(n)) = <<>>
                /\ ComparedRecords(n) = {}

\* the kinds of the attribute-drift tests
DriftTestKinds ==
    {aws_lambda_function, aws_sqs_queue, aws_dynamodb_table, aws_ecs_cluster,
     aws_cloudwatch_event_rule, aws_api_gateway_resource, aws_s3_bucket}

\* the observed bag of instance n is its declared bag with the varied attribute changed
ObservedVaried(n) ==
    /\ TypeAt(n) \in DriftTestKinds
    /\ VariedField(TypeAt(n)) \in DOMAIN BagAt(n)
    /\ BagAt(n)[VariedField(TypeAt(n))] # S("other")
    /\ ObservedAs(n, Varied(BagAt(n), VariedField(TypeAt(n))))

\* C9: when the observed bag, stored under the instance's key, differs from the
\* declared bag in the value of exactly one attribute, compare_resources emits
\* exactly one drift record for the instance, of type attribute_drift, for each of
\* the seven kinds of the attribute-drift tests.
C9_OneAttributeDriftRecord ==
    Compared =>
        \A n \in 1..Count :
            ObservedVaried(n) =>
                /\ Cardinality(ComparedRecords(n)) = 1
                /\ \A i \in ComparedRecords(n) :
                      drift_report.drifts[i].drift_type = "attribute_drift"

\* the kinds each comparator is written for
ComparatorKinds(comparator) ==
    CASE comparator = "compare_ec2_attributes" -> {aws_instance, aws_vpc}
      [] comparator = "compare_s3_attributes" -> {aws_s3_bucket}
      [] comparator = "compare_dynamodb_attributes" -> {aws_dynamodb_table}
      [] comparator = "compare_rds_attributes" -> {aws_db_instance}
      [] comparator = "compare_apigateway_attributes" -> {aws_api_gateway_rest_api}
      [] comparator = "_compare_lambda_function_attributes" -> {aws_lambda_function}
      [] comparator = "_compare_lambda_permission_attributes" -> {aws_lambda_permission}
      [] comparator = "_compare_iam_role_attributes" -> {aws_iam_role}
      [] comparator = "_compare_iam_policy_attributes" -> {aws_iam_policy}
      [] comparator = "_compare_iam_openid_connect_provider_attributes" ->
            {aws_iam_openid_connect_provider}
      [] comparator = "_compare_iam_role_policy_attributes" -> {aws_iam_role_policy}
      [] comparator = "_compare_eventbridge_bus_attributes" -> {aws_cloudwatch_event_bus}
      [] comparator = "_compare_eventbridge_rule_attributes" -> {aws_cloudwatch_event_rule}
      [] comparator = "_compare_eventbridge_target_attributes" ->
            {aws_cloudwatch_event_target}
      [] comparator = "_compare_ecs_cluster_attributes" -> {aws_ecs_cluster}
      [] comparator = "_compare_ecs_service_attributes" -> {aws_ecs_service}
      [] comparator = "_compare_cloudwatch_dashboard_attributes" -> {aws_cloudwatch_dashboard}
      [] comparator = "_compare_cloudwatch_alarm_attributes" -> {aws_cloudwatch_metric_alarm}
      [] comparator = "_compare_sqs_queue_attributes" -> {aws_sqs_queue}
      [] OTHER -> {}

\* C10: comparator dispatch checks the more specific kind first: an instance is never
\* compared by the comparator of a kind whose tag is merely a prefix of its own tag.
C10_SpecificKindFirst ==
    \A i \in 1..Len(calls) :
        \A kind \in ComparatorKinds(calls[i].comparator) :
            StartsWith(calls[i].resource_type, kind) =>
                calls[i].resource_type \in ComparatorKinds(calls[i].comparator)

\* the id-named fields, in the order they are tried
IdFields == <<"id", "instance_id", "resource_id", "Id", "ID", "InstanceId", "ResourceId">>

\* the key strict precedence gives a bag: the arn-named field when its value is an
\* AWS ARN, else the first id-named field that is set, else the synthesized key
PrecedenceKey(resource_type, resource_name, idx, attributes) ==
    LET IsArnAt(f) == f \in DOMAIN attributes /\ IsAwsArn(attributes[f])
        IsSetAt(f) == f \in DOMAIN attributes /\ Truthy(attributes[f])
        arns == SelectSeq(<<"arn", "Arn", "ARN">>, IsArnAt)
        ids == SelectSeq(IdFields, IsSetAt)
    IN  IF arns # <<>> THEN attributes[Head(arns)]
        ELSE IF ids # <<>> THEN attributes[Head(ids)]
        ELSE FallbackKey(resource_type, resource_name, idx)

\* detect_drift has derived the keys of the declared instances
Keyed == pc \in {"keyed", "reported"}

\* C11: for a kind with no composite strategy, the key detect_drift gives a declared
\* bag and the key compare_resources looks it up under are both the key of strict
\* precedence: the arn field when it holds an AWS ARN, else the first id-named field
\* verbatim, else "{kind}.{logical_name}_{instance_index}"; every bag gets a key.
C11_KeyPrecedence ==
    Keyed =>
        \A n \in 1..Count :
            TypeAt(n) \in SimpleKinds =>
                /\ IsStr(keys[n])
                /\ keys[n] = PrecedenceKey(TypeAt(n), NameAt(n), PositionAt(n)[2] - 1, BagAt(n))
                /\ CompareKeyAt(state_data, PositionAt(n))
                      = PrecedenceKey(TypeAt(n), NameAt(n), PositionAt(n)[2] - 1, BagAt(n))

\* a composite field of the bag is absent: missing, null, "" or []
CompositeFieldAbsent(resource_type, attributes) ==
    \E i \in 1..Len(CompositeFields(resource_type)) :
        \/ CompositeFields(resource_type)[i] \notin DOMAIN attributes
        \/ attributes[CompositeFields(resource_type)[i]] \in {None, EmptyStr, EmptyList}

\* C12: for a composite-key kind, a declared bag with an absent composite field
\* (missing, null, "" or []) is keyed by exactly "{kind}.{logical_name}_{instance_index}"
\* by detect_drift, by compare_resources and by get_live_aws_resources; none of them
\* raises on it and none builds a key from the fields that remain.
C12_AbsentFieldFallsBack ==
    pc \in {"fetched", "compared", "keyed", "reported", "error"} =>
        \A n \in 1..Count :
            TypeAt(n) \in CompositeKinds /\ CompositeFieldAbsent(TypeAt(n), BagAt(n)) =>
                /\ KeyAt(state_data, PositionAt(n))
                      = FallbackKey(TypeAt(n), NameAt(n), PositionAt(n)[2] - 1)
                /\ CompareKeyAt(state_data, PositionAt(n))
                      = FallbackKey(TypeAt(n), NameAt(n), PositionAt(n)[2] - 1)
                /\ unique_resource_key(TypeAt(n), NameAt(n), PositionAt(n)[2] - 1, BagAt(n))
                      = FallbackKey(TypeAt(n), NameAt(n), PositionAt(n)[2] - 1)

\* the values of the composite fields of a bag, in the order of the fields
CompositeTuple(resource_type, attributes) ==
    [i \in 1..Len(CompositeFields(resource_type)) |->
        Get(attributes, CompositeFields(resource_type)[i])]

\* C13: two declared instances of the same composite-key kind whose tuples of
\* composite field values differ get two distinct keys from detect_drift, also when
\* their logical name and instance index are equal.
C13_DistinctTuplesDistinctKeys ==
    Keyed =>
        \A m, n \in 1..Count :
            /\ m # n
            /\ TypeAt(m) = TypeAt(n)
            /\ TypeAt(m) \in CompositeKinds
            /\ ~CompositeFieldAbsent(TypeAt(m), BagAt(m))
            /\ ~CompositeFieldAbsent(TypeAt(n), BagAt(n))
            /\ CompositeTuple(TypeAt(m), BagAt(m)) # CompositeTuple(TypeAt(n), BagAt(n))
            => keys[m] # keys[n]

\* the observed bag compare_resources compares the single declared instance with
ObservedBag == live_resources[1].v

\* compare_resources reported a difference named attr (the queue-policy block names
\* its difference with the field "name", the comparators with "attribute")
ReportedOn(attr) ==
    \E i \in 1..Len(drift_report.drifts) :
        /\ "differences" \in DOMAIN drift_report.drifts[i]
        /\ \E j \in 1..Len(drift_report.drifts[i].differences) :
              LET difference == drift_report.drifts[i].differences[j]
              IN  \/ "attribute" \in DOMAIN difference /\ difference.attribute = attr
                  \/ "name" \in DOMAIN difference /\ difference.name = attr

\* the optional attribute varied for a kind: its declared field, its observed field
\* and the name its difference is reported under
OptionalAttribute(resource_type) ==
    CASE resource_type = aws_cloudwatch_event_rule ->
            <<"description", "Description", "description">>
      [] resource_type = aws_cloudwatch_event_target -> <<"input", "input", "input">>
      [] resource_type = aws_sqs_queue -> <<"delay_seconds", "DelaySeconds", "delay_seconds">>
      [] resource_type = aws_iam_role_policy -> <<"policy", "policy", "policy_document">>
      [] OTHER -> <<>>

\* the field is set to null, "" or []
IsEmptyValue(bag, f) == f \in DOMAIN bag /\ bag[f] \in {None, EmptyStr, EmptyList}

\* C14: when an optional attribute is missing from one bag and null, "" or [] in the
\* other (declared or observed, either way round), the comparator reports no
\* difference for that attribute: event rule description, event target input,
\* queue delay_seconds, role-policy policy.
C14_AbsentEqualsEmpty ==
    pc = "compared" =>
        LET attribute == OptionalAttribute(TypeAt(1))
        IN  /\ attribute # <<>>
            /\ \/ attribute[1] \notin DOMAIN BagAt(1) /\ IsEmptyValue(ObservedBag, attribute[2])
               \/ IsEmptyValue(BagAt(1), attribute[1]) /\ attribute[2] \notin DOMAIN ObservedBag
            => ~ReportedOn(attribute[3])

\* v is a serialisation of document id, or the decoded document id
IsSerialised(v, id) == IsStr(v) /\ IsJson(Text(v)) /\ Text(v)[3] = id
IsDecoded(v, id) == v = Dict(id)

\* one bag holds a serialisation of a document and the other its decoded form
RoundTrip(declared, observed) ==
    \E id \in {"p1", "p2"} :
        \/ IsSerialised(declared, id) /\ IsDecoded(observed, id)
        \/ IsDecoded(declared, id) /\ IsSerialised(observed, id)

\* C15: a policy given as any JSON serialisation on one side and as the decoded
\* document on the other produces no policy difference, in the role-policy
\* comparator and in the queue-policy comparison of compare_resources, whichever
\* side holds the string.
C15_PolicyRoundTrip ==
    pc = "compared" =>
        /\ TypeAt(1) = aws_iam_role_policy
              /\ RoundTrip(Get(BagAt(1), "policy"), Get(ObservedBag, "policy"))
              => ~ReportedOn("policy_document")
        /\ TypeAt(1) = aws_sqs_queue_policy
              /\ RoundTrip(Get(BagAt(1), "policy"), Get(ObservedBag, "Policy"))
              => ~ReportedOn("policy")

\* a non-empty string that is not valid JSON
InvalidJson(v) == IsStr(v) /\ Truthy(v) /\ Raised(json_loads(v))

\* C16: when the declared or the observed policy is a string that is not valid JSON,
\* the comparison is still made, on the raw values: a policy difference is reported
\* exactly when the raw declared and observed values differ.  This holds of the
\* role-policy comparator, of the queue-policy block of compare_resources and of
\* compare_sqs_queue_policy_attributes.
C16_InvalidJsonComparedRaw ==
    /\ pc = "compared" /\ TypeAt(1) = aws_iam_role_policy
          /\ (InvalidJson(Get(BagAt(1), "policy")) \/ InvalidJson(Get(ObservedBag, "policy")))
          => (ReportedOn("policy_document")
                <=> Get(BagAt(1), "policy") # Get(ObservedBag, "policy"))
    /\ pc = "compared" /\ TypeAt(1) = aws_sqs_queue_policy
          /\ (InvalidJson(Get(BagAt(1), "policy")) \/ InvalidJson(Get(ObservedBag, "Policy")))
          => (ReportedOn("policy") <=> Get(BagAt(1), "policy") # Get(ObservedBag, "Policy"))
    /\ pc = "policy_compared"
          /\ (InvalidJson(Get(BagAt(1), "policy")) \/ InvalidJson(Get(ObservedBag, "policy")))
          => (result.differences # <<>>
                <=> Get(BagAt(1), "policy") # Get(ObservedBag, "policy"))

\* one side gives the principal as the bare string s, the other as {"Service": s}
SamePrincipal(declared, observed) ==
    \/ IsStr(declared) /\ observed = Service(Text(declared))
    \/ IsStr(observed) /\ declared = Service(Text(observed))

\* C17: in the Lambda-permission comparator a principal given as a bare string on
\* one side and as {"Service": s} with the same s on the other yields no principal
\* difference, whichever side carries the structured form.
C17_PrincipalUnwrapped ==
    pc = "compared" /\ TypeAt(1) = aws_lambda_permission
        /\ SamePrincipal(Get(BagAt(1), "principal"), Get(ObservedBag, "Principal"))
        => ~ReportedOn("principal")

\* compare_attributes dispatches the kind of instance n to no comparator
NoComparator(n) ==
    /\ TypeAt(n) \notin META_RESOURCE_TYPES
    /\ ~StartsWith(TypeAt(n), aws_sqs_queue_policy)
    /\ compare_attributes_route(TypeAt(n)) = "none"

\* C18: a declared instance of a kind with no registered comparator gets no
\* differences from compare_attributes and ends in the unaccounted bucket
\* (summary.unmatched_undetected_resources) and in no other classification.
C18_NoComparatorUnaccounted ==
    pc = "reported" =>
        \A n \in 1..Count :
            NoComparator(n) =>
                /\ \A i \in 1..Len(live_resources) :
                      compare_attributes(BagAt(n), live_resources[i].v, TypeAt(n)) = <<>>
                /\ ClassesOf(n) = {"unaccounted"}

\* the bag of instance n is malformed: a Lambda permission whose function_name or
\* statement_id is set to something that is not a string
Malformed(n) ==
    /\ TypeAt(n) = aws_lambda_permission
    /\ \E f \in {"function_name", "statement_id"} :
          f \in DOMAIN BagAt(n) /\ ~IsStr(BagAt(n)[f])

\* C19: a malformed declared bag on one instance does not abort the run: detect_drift
\* does not end in the error result, and in the report the instance is keyed by
\* "{kind}.{logical_name}_{instance_index}" and reported missing.
C19_MalformedBagKept ==
    \A n \in 1..Count :
        Malformed(n) =>
            /\ pc # "error"
            /\ pc = "reported" =>
                  /\ keys[n] = FallbackKey(TypeAt(n), NameAt(n), PositionAt(n)[2] - 1)
                  /\ IsMissing(n)

\* C20: detect_drift has exactly two outcomes: a complete report with drift_detected,
\* drifts and summary, or, when a step raised, an error result with the error
\* message, drift_detected false, no drifts and no summary; nothing is returned
\* before the run ends, and nothing computed before a failure is returned.
C20_TwoOutcomes ==
    /\ pc = "reported" =>
          /\ DOMAIN result = {"drift_detected", "drifts", "summary"}
          /\ result.drift_detected = (Len(result.drifts) > 0)
    /\ pc = "error" =>
          /\ DOMAIN result = {"error", "drift_detected", "drifts"}
          /\ result.drift_detected = FALSE
          /\ result.drifts = <<>>
    /\ pc \notin {"reported", "error"} => result = NoResult

\* a run failed after the observed resources were requested for a document that
\* declares something
C20_FailedRun ==
    /\ pc = "error"
    /\ "error" \in DOMAIN result
    /\ Count > 0

\* a provider call made for a declared resource raises: the identity call of the
\* caller-identity data source
ProviderCallRaises ==
    /\ provider # Mocked
    /\ provider.sts.raises
    /\ \E n \in 1..Count : StartsWith(TypeAt(n), aws_caller_identity)

\* C21: when a provider call raises while the observed state of a declared resource
\* is fetched, the run fails as a whole: detect_drift ends in the error result, and
\* compare_resources and the classification never run on the observed map that
\* lacks the resource.
C21_FetchFailureFailsRun ==
    ProviderCallRaises => pc \in {"start", "error"}

\* C22: the records of the report's drifts list are in the order in which their
\* instances are met walking the document (resource order, then instance index): a
\* record of a later instance never precedes a record of an earlier one, whatever
\* the iteration order of the sets detect_drift loops over.
C22_DriftsInDocumentOrder ==
    pc = "reported" =>
        \A i, j \in 1..Len(result.drifts) :
            i < j =>
                \A m, n \in 1..Count :
                    i \in RecordsFor(result.drifts, m) /\ j \in RecordsFor(result.drifts, n)
                        => m <= n

\* the kinds and the logical names of the declarations, in alphabetical order
KindsSorted ==
    <<aws_api_gateway_resource, aws_caller_identity, aws_cloudwatch_event_rule,
      aws_cloudwatch_event_target, aws_dynamodb_table, aws_ecs_cluster, aws_iam_role_policy_attachment, aws_kms_key,
      aws_lambda_function, aws_lambda_permission, aws_region, aws_s3_bucket, aws_sqs_queue,
      aws_sqs_queue_policy>>

NamesSorted ==
    <<"a", "allow", "b", "broken", "current", "k", "my_cluster", "my_func", "my_queue",
      "my_resource", "my_rule", "my_table", "norole", "orders", "q", "t">>

RankIn(sorted, x) == CHOOSE i \in 1..Len(sorted) : sorted[i] = x

\* (kind, name) of one descriptor does not come after (kind, name) of another; a
\* display name starts with the logical name of its declaration
NotAfter(kind1, name1, kind2, name2) ==
    \/ RankIn(KindsSorted, kind1) < RankIn(KindsSorted, kind2)
    \/ /\ kind1 = kind2
       /\ RankIn(NamesSorted, Text(name1)[1]) <= RankIn(NamesSorted, Text(name2)[1])

\* C23: in the report of detect_drift, summary.matching_resources is sorted by
\* (resource kind, display name) and summary.meta_resources by (resource kind,
\* name), so the order of both lists is the same for every run on the same inputs.
C23_DescriptorsSorted ==
    pc = "reported" =>
        /\ \A i, j \in 1..Len(result.summary.matching_resources) :
              i < j =>
                  NotAfter(result.summary.matching_resources[i].resource_type,
                           result.summary.matching_resources[i].display_name,
                           result.summary.matching_resources[j].resource_type,
                           result.summary.matching_resources[j].display_name)
        /\ \A i, j \in 1..Len(result.summary.meta_resources) :
              i < j =>
                  NotAfter(result.summary.meta_resources[i].resource_type,
                           result.summary.meta_resources[i].resource_name,
                           result.summary.meta_resources[j].resource_type,
                           result.summary.meta_resources[j].resource_name)

\* C24: no step of a run changes the parsed document (get_live_aws_resources,
\* compare_resources and the classification leave resources, instances and bags as
\* they were), and once the observed map is fetched no step changes it.
C24_InputsNeverMutated ==
    [][/\ state_data' = state_data
       /\ pc # "start" => live_resources' = live_resources]_vars

\* a run is complete for a document with a role-policy attachment whose role
\* fetch_iam_resources had to read from the key
C24_RoleReadFromKeyRun ==
    /\ pc = "reported"
    /\ \E n \in 1..Count :
          /\ StartsWith(TypeAt(n), aws_iam_role_policy_attachment)
          /\ ~Truthy(Get(BagAt(n), "role"))
          /\ RoleFromKey(keys[n], BagAt(n)).local # BagAt(n)

ConfigurationInvalid ==
    /\ environ # <<>>
    /\ \/ environ.STATE_FILE_S3_PATH \in {Absent, <<>>}
       \/ ~StartsWith(environ.STATE_FILE_S3_PATH, <<"s3://">>)

\* C25: lambda_handler never raises and its response has a statusCode: 400 with the
\* error "Configuration error" when STATE_FILE_S3_PATH is unset or does not start
\* with s3://, and 200 with the report when detect_drift returned.
C25_HandlerAlwaysResponds ==
    pc = "returned" =>
        /\ "statusCode" \in DOMAIN response
        /\ IF ConfigurationInvalid
           THEN response.statusCode = 400 /\ response.error = "Configuration error"
           ELSE response.statusCode \in {200, 500}
        /\ result # NoResult => response = HandlerReturn(result)

\* C30: the runner never logs "No drift detected" and never exits with code 0 when
\* detect_drift ended in its error outcome.
C30_ErrorExitsNonZero ==
    pc = "exited" /\ "error" \in DOMAIN result =>
        /\ sys_exit.code # 0
        /\ sys_exit.logged # "No drift detected. Exiting with code 0"

\* declared instances m and n differ in kind, logical name or instance index
DistinctInstances(m, n) ==
    <<TypeAt(m), NameAt(m), PositionAt(m)[2]>> # <<TypeAt(n), NameAt(n), PositionAt(n)[2]>>

\* C26: two distinct declared instances never receive the same identity key, and in
\* the report summary.total_resources equals summary.total_instance_count.
C26_KeysNeverCollide ==
    /\ Keyed => \A m, n \in 1..Count : DistinctInstances(m, n) => keys[m] # keys[n]
    /\ pc = "reported" =>
          result.summary.total_resources = result.summary.total_instance_count

\* the declared instances with at least one record in the report's drifts
ResourcesWithRecords == {n \in 1..Count : RecordsFor(result.drifts, n) # {}}

\* C27: in every successful report summary.drift_count is the number of distinct
\* resources with at least one record in drifts, and drift_detected is true exactly
\* when summary.drift_count is greater than zero.
C27_DriftCountCountsDrifted ==
    pc = "reported" =>
        /\ result.summary.drift_count = Cardinality(ResourcesWithRecords)
        /\ result.drift_detected <=> result.summary.drift_count > 0

\* the provider lists the target declared by instance n under the declared rule
TargetExists(n) ==
    \E key \in DOMAIN provider.events.Targets :
        /\ key[2] = Get(BagAt(n), "rule")
        /\ \E i \in 1..Len(provider.events.Targets[key]) :
              Get(provider.events.Targets[key][i], "Arn") = Get(BagAt(n), "arn")

\* every field of the bag is None
AllNull(bag) == \A f \in DOMAIN bag : bag[f] = None

\* C28: the observed map holds a key only for a resource the provider returned: for a
\* declared EventBridge target the provider does not list, no entry (no all-null
\* placeholder bag) is stored, and the instance is reported missing_resource and never
\* attribute_drift or matched.
C28_NoPlaceholderForAbsent ==
    /\ \A i \in 1..Len(live_resources) : ~AllNull(live_resources[i].v)
    /\ pc = "reported" =>
          \A n \in 1..Count :
              StartsWith(TypeAt(n), aws_cloudwatch_event_target) /\ ~TargetExists(n)
              => IsMissing(n) /\ ~IsAttributeDrifted(n) /\ ~IsMatched(n)

\* the observed queue a declared queue_url denotes: the one whose name, the last
\* segment of its ARN, is the last segment of the URL
DenotedBy(queue_url, e) ==
    /\ Truthy(queue_url)
    /\ "QueueArn" \in DOMAIN e.v
    /\ SplitLast(Text(e.v["QueueArn"]), ":") = SplitLast(Text(queue_url), "/")

\* the Policy of the observed queue queue_url denotes, None when there is none
DenotedPolicy(queue_url) ==
    IF \E i \in 1..Len(live_resources) : DenotedBy(queue_url, live_resources[i])
    THEN Get(live_resources[CHOOSE i \in 1..Len(live_resources) :
                                DenotedBy(queue_url, live_resources[i])].v, "Policy")
    ELSE None

\* C29: compare_resources compares a declared queue policy only with the Policy of
\* the observed queue its queue_url denotes, never with that of another queue or of a
\* non-queue resource, whatever the order of the observed map: a record is reported
\* exactly when the two canonical policies differ, and it carries that queue's policy.
C29_PolicyOfDenotedQueue ==
    Compared =>
        \A n \in 1..Count :
            StartsWith(TypeAt(n), aws_sqs_queue_policy) =>
                LET declared == Canonical(Get(BagAt(n), "policy"))
                    observed == Canonical(DenotedPolicy(Get(BagAt(n), "queue_url")))
                    records == {i \in 1..Len(drift_report.drifts) :
                                   RecordKey(drift_report.drifts[i]) = ReportedKeyAt(n)}
                IN  /\ (records # {}) <=> (declared # observed)
                    /\ \A i \in records : drift_report.drifts[i].differences[1].live = observed

====
